---- MODULE Spec2Model ----
(***************************************************************************)
(* A model of pdfgen, the markdown-to-PDF command of golang.design/research *)
(* (package main, func main and its helpers).                               *)
(*                                                                          *)
(* Text is a sequence of symbols.  A symbol is one character ("[", "]",     *)
(* "\n", ...) or one word that the program never looks inside               *)
(* ("<!--abstract-->", "mailto:", ...).  The literals the program searches  *)
(* for are sequences of symbols, so that literals sharing a character       *)
(* (the "\n" of "<!--abstract-->\n" and of "\n<!--more-->") share a symbol. *)
(***************************************************************************)
EXTENDS Integers, Sequences, FiniteSets, TLC

VARIABLES
    sdoc,       \* SpecSections: the document b handed to the three parsers
    spc,        \* SpecSections: "input" before the parsers ran, "done" after
    sres,       \* SpecSections: the parsers' results
    ctext,      \* SpecCite: the text handed to the citation rewriting
    cout,       \* SpecCite: the text after the passes made so far
    cprev,      \* SpecCite: the text before the last pass
    cpass,      \* SpecCite: the number of passes made
    ain,        \* SpecAuthor: the parts the document was written from
    adoc,       \* SpecAuthor: the document b handed to parseAuthor
    apc,        \* SpecAuthor: "input" before parseAuthor ran, "done" after
    ares,       \* SpecAuthor: the result of parseAuthor
    pc,         \* Spec: the statement of main the run is at, or "exited"
    args,       \* Spec: flag.Args(), a list of paths
    fs,         \* Spec: the files, by path
    b,          \* Spec: the loaded document
    metaData,   \* Spec: the metadata map
    abstrat,    \* Spec: the abstract
    body,       \* Spec: the body
    content,    \* Spec: the composite document
    references, \* Spec: the bibliography document
    deferred,   \* Spec: the paths of the deferred os.Remove calls, last first
    exitCode,   \* Spec: the exit status, -1 while the process runs
    failure,    \* Spec: what failed, "none" while nothing did
    hist,       \* Spec: the steps executed so far, in order
    din,        \* SpecDate: the parts the date was written from
    dmeta,      \* SpecDate: the metadata handed to convertDate
    dpc,        \* SpecDate: "input" before convertDate ran, "done" after
    dres,       \* SpecDate: the result of convertDate
    rdoc,       \* SpecRefs: the document b handed to parseReferences
    rpc,        \* SpecRefs: "input" before parseReferences ran, "done" after
    rres,       \* SpecRefs: the result of parseReferences
    pin,        \* SpecPath: the directory and the name the path was written from
    ppath,      \* SpecPath: the input path
    ppc,        \* SpecPath: "input" before dst is computed, "done" after
    pdst,       \* SpecPath: dst, the output path handed to the renderer
    racePc,     \* SpecRace: the statement of main each invocation is at
    raceFs,     \* SpecRace: which invocation's text each temporary file holds
    raceLast,   \* SpecRace: the invocation that last wrote or removed each file
    raceRead,   \* SpecRace: what each invocation's renderer found at each path
    raceDeferred, \* SpecRace: the deferred os.Remove calls of each invocation
    raceExit,   \* SpecRace: the exit status of each invocation, -1 while it runs
    funcQ,      \* SpecMainthread: the buffered channel of funcdata
    donePool,   \* SpecMainthread: the done channels in the pool
    doneMade,   \* SpecMainthread: the done channels made so far
    initPc,     \* SpecMainthread: where Init is: "loop", "fn", "signal", "returned"
    fdata,      \* SpecMainthread: the funcdata Init took from funcQ
    initDone,   \* SpecMainthread: the done channel of Init
    mainPc,     \* SpecMainthread: where the goroutine of main() is
    callPc,     \* SpecMainthread: where each caller is in Call
    callDone,   \* SpecMainthread: the done channel of each caller
    started,    \* SpecMainthread: the calls of Call each caller has made
    begun,      \* SpecMainthread: the executions of each caller's f begun
    finished,   \* SpecMainthread: the executions of each caller's f finished
    returned,   \* SpecMainthread: the calls of Call that have returned
    early,      \* SpecMainthread: whether each caller's call began while
                \* main() was running
    nested,     \* SpecMainthread: the Call made by the function that Init
                \* is executing: where it is, and its done channel
    thWorker,   \* SpecThread: where the goroutine of New is
    thClosed,   \* SpecThread: whether t.terminate is closed
    thClient,   \* SpecThread: where the goroutine that uses the Thread is
    thCalls,    \* SpecThread: the results of the calls of Call, in order
    thTerminated, \* SpecThread: the calls of Terminate that have returned
    thRan,      \* SpecThread: the functions the worker has executed
    chSender,   \* SpecChan: where the goroutine that sends on in is
    chAccepted, \* SpecChan: the number of values received from in
    chInClosed, \* SpecChan: whether in is closed
    chQ,        \* SpecChan: q, the values not yet sent on out
    chG,        \* SpecChan: where the goroutine of MakeChan is
    chReceiver, \* SpecChan: where the goroutine that receives from out is
    chOut,      \* SpecChan: the values received from out, in order
    chOutClosed, \* SpecChan: how many times out was closed
    chLeft,     \* SpecChan: len(q) when the goroutine found in closed, -1 before
    rnCap,      \* SpecRender: the capacities of the channels draw and change
    rnE,        \* SpecRender: where the event thread (main) is
    rnR,        \* SpecRender: where the rendering thread is
    rnChange,   \* SpecRender: the buffer of change
    rnDraw,     \* SpecRender: the buffer of draw
    rnVal,      \* SpecRender: the draw call the rendering thread is sending
    rnId,       \* SpecRender: p.id
    rnEvents,   \* SpecRender: the number of ticks of event.C taken
    rnPrinted,  \* SpecRender: the id of the last draw call printed, -1 before
    rnG,        \* SpecRender: where the goroutine of MakeChan is, "none" without
    rnQ,        \* SpecRender: q of MakeChan
    cgM,        \* SpecHandle: m, the map from keys to the values stored
    cgIssued,   \* SpecHandle: the handles returned and not deleted, each with
                \* the value passed to NewHandle
    cgLast,     \* SpecHandle: the last call and its outcome
    cgOps       \* SpecHandle: the number of calls made

secVars == <<sdoc, spc, sres>>
citeVars == <<ctext, cout, cprev, cpass>>
authVars == <<ain, adoc, apc, ares>>
mainVars == <<pc, args, fs, b, metaData, abstrat, body, content, references,
              deferred, exitCode, failure, hist>>
dateVars == <<din, dmeta, dpc, dres>>
refVars == <<rdoc, rpc, rres>>
pathVars == <<pin, ppath, ppc, pdst>>
raceVars == <<racePc, raceFs, raceLast, raceRead, raceDeferred, raceExit>>
mtVars == <<funcQ, donePool, doneMade, initPc, fdata, initDone, mainPc,
            callPc, callDone, started, begun, finished, returned, early,
            nested>>
thVars == <<thWorker, thClosed, thClient, thCalls, thTerminated, thRan>>
chVars == <<chSender, chAccepted, chInClosed, chQ, chG, chReceiver, chOut,
            chOutClosed, chLeft>>
rnVars == <<rnCap, rnE, rnR, rnChange, rnDraw, rnVal, rnId, rnEvents,
            rnPrinted, rnG, rnQ>>
cgVars == <<cgM, cgIssued, cgLast, cgOps>>

vars == <<secVars, citeVars, authVars, mainVars, dateVars, refVars, pathVars,
          raceVars, mtVars, thVars, chVars, rnVars,
          cgVars>>

----------------------------------------------------------------------------
(* Bounds of the model *)

\* longest document, in symbols, of SpecSections
MaxDocLen == 7

\* longest text, in symbols, of SpecCite (the named examples are longer)
MaxTextLen == 6

\* passes of the citation rewriting over one text in SpecCite
MaxPasses == 2

\* most entries of one author line in SpecAuthor
MaxAuthors == 2

\* most parts the text of an input document of Spec is written from
MaxParts == 4

----------------------------------------------------------------------------
(* package strings *)

MinOf(S) == CHOOSE i \in S : \A j \in S : i <= j

\* strings.HasPrefix(s, prefix)
HasPrefix(s, prefix) ==
    /\ Len(prefix) <= Len(s)
    /\ SubSeq(s, 1, Len(prefix)) = prefix

\* strings.HasSuffix(s, suffix)
HasSuffix(s, suffix) ==
    /\ Len(suffix) <= Len(s)
    /\ SubSeq(s, Len(s) - Len(suffix) + 1, Len(s)) = suffix

\* the start positions (1-based) of the occurrences of sep in s
Occurrences(s, sep) ==
    {i \in 1..(Len(s) - Len(sep) + 1) : SubSeq(s, i, i + Len(sep) - 1) = sep}

\* strings.Index(s, sep), 1-based; 0 when sep does not occur
Index(s, sep) ==
    IF Occurrences(s, sep) = {} THEN 0 ELSE MinOf(Occurrences(s, sep))

\* a variant of Index that finds the last occurrence
LastIndex(s, sep) ==
    IF Occurrences(s, sep) = {} THEN 0
    ELSE CHOOSE i \in Occurrences(s, sep) : \A j \in Occurrences(s, sep) : j <= i

\* a variant of Cut that slices around the last occurrence of sep
CutLast(s, sep) ==
    LET i == LastIndex(s, sep)
    IN  IF i = 0
        THEN [before |-> s, after |-> <<>>, ok |-> FALSE, at |-> Len(s)]
        ELSE [before |-> SubSeq(s, 1, i - 1),
              after  |-> SubSeq(s, i + Len(sep), Len(s)),
              ok     |-> TRUE,
              at     |-> i + Len(sep) - 1]

\* strings.Cut(s, sep): slices s around the first instance of sep.  The
\* results are slices of s: "at" is the offset in s at which "after" starts.
Cut(s, sep) ==
    LET i == Index(s, sep)
    IN  IF i = 0
        THEN [before |-> s, after |-> <<>>, ok |-> FALSE, at |-> Len(s)]
        ELSE [before |-> SubSeq(s, 1, i - 1),
              after  |-> SubSeq(s, i + Len(sep), Len(s)),
              ok     |-> TRUE,
              at     |-> i + Len(sep) - 1]

\* strings.TrimPrefix(s, prefix)
TrimPrefix(s, prefix) ==
    IF HasPrefix(s, prefix) THEN SubSeq(s, Len(prefix) + 1, Len(s)) ELSE s

\* strings.TrimSuffix(s, suffix)
TrimSuffix(s, suffix) ==
    IF HasSuffix(s, suffix) THEN SubSeq(s, 1, Len(s) - Len(suffix)) ELSE s

\* strings.ReplaceAll(s, old, new), old not empty: the non-overlapping
\* instances of old, found from the left
RECURSIVE ReplaceAll(_, _, _)
ReplaceAll(s, old, new) ==
    LET c == Cut(s, old)
    IN  IF ~c.ok THEN s ELSE c.before \o new \o ReplaceAll(c.after, old, new)

\* strings.Split(s, sep), sep not empty
RECURSIVE Split(_, _)
Split(s, sep) ==
    LET c == Cut(s, sep)
    IN  IF ~c.ok THEN <<s>> ELSE <<c.before>> \o Split(c.after, sep)

\* every sequence of at most n symbols of A
SeqsUpTo(A, n) == UNION {[1..k -> A] : k \in 0..n}

----------------------------------------------------------------------------
(* The symbols and literals of the section conventions *)

NL   == "\n"
ABS  == "<!--abstract-->"
MORE == "<!--more-->"
REF  == "## References"

AbstractOpen  == <<ABS, NL>>      \* "<!--abstract-->\n"
MoreMark      == <<NL, MORE>>     \* "\n<!--more-->"
RefHeading    == <<REF>>          \* "## References"
RefHeadingNL  == <<REF, NL>>      \* "## References\n"

\* what a fatal parser leaves behind: log.Fatal ends the process
Fatal == [ok |-> FALSE, content |-> <<>>, at |-> 0]

\* parseAbstract(b): ok is FALSE where the code jumps to err and log.Fatal
\* ends the process; content is a slice of b that starts at offset "at"
parseAbstract(bytes) ==
    LET c1 == Cut(bytes, AbstractOpen)
        c2 == Cut(c1.after, MoreMark)
    IN  IF ~c1.ok THEN Fatal
        ELSE IF ~c2.ok THEN Fatal
        ELSE [ok |-> TRUE, content |-> c2.before, at |-> c1.at]

\* a variant of parseBody that forgets to skip to "\n<!--more-->"
parseBodyFromStart(bytes) ==
    LET c2 == Cut(bytes, RefHeading)
    IN  IF ~c2.ok THEN Fatal
        ELSE [ok |-> TRUE, content |-> c2.before, at |-> 0]

\* parseBody(b)
parseBody(bytes) ==
    LET c1 == Cut(bytes, MoreMark)
        c2 == Cut(c1.after, RefHeading)
    IN  IF ~c1.ok THEN Fatal
        ELSE IF ~c2.ok THEN Fatal
        ELSE [ok |-> TRUE, content |-> c2.before, at |-> c1.at]

\* a variant of cutReferences that goes on when the heading is missing
cutReferencesLenient(bytes) ==
    LET c == Cut(bytes, RefHeadingNL)
    IN  [ok |-> TRUE, content |-> c.after, at |-> c.at]

\* the first step of parseReferences(b): the text after "## References\n"
cutReferences(bytes) ==
    LET c == Cut(bytes, RefHeadingNL)
    IN  IF ~c.ok THEN Fatal ELSE [ok |-> TRUE, content |-> c.after, at |-> c.at]

----------------------------------------------------------------------------
(* The inline citation rewriting of main:                                   *)
(*   re := regexp.MustCompile("\\[\\^(.*?)\\]")                             *)
(*   re.ReplaceAllString(text, "\\cite{$1}")                                *)

\* the replacement's "\cite{", one symbol: it holds no "[", "^" or "]"
CITE == "\\cite{"

MaxOf(S) == CHOOSE i \in S : \A j \in S : j <= i

\* the positions at which a match that starts with "[^" at p can end: a "]"
\* with no newline between ("." does not match "\n")
matchEnds(t, p) ==
    {e \in (p + 2)..Len(t) :
        /\ t[e] = "]"
        /\ \A k \in (p + 2)..(e - 1) : t[k] # NL}

\* a variant of matchEnd for the greedy (.*): the farthest "]"
matchEndGreedy(t, p) ==
    IF matchEnds(t, p) = {} THEN 0 ELSE MaxOf(matchEnds(t, p))

\* where the match of \[\^(.*?)\] that starts at p ends (0: no match at p):
\* the non-greedy (.*?) prefers the shortest submatch
matchEnd(t, p) ==
    IF matchEnds(t, p) = {} THEN 0 ELSE MinOf(matchEnds(t, p))

\* the positions from which on \[\^(.*?)\] matches
matchStarts(t, from) ==
    {p \in from..(Len(t) - 1) :
        t[p] = "[" /\ t[p + 1] = "^" /\ matchEnd(t, p) # 0}

\* re.FindAllStringIndex(t, -1) from position from on: the successive
\* leftmost matches, each search starting after the previous match
RECURSIVE findAll(_, _)
findAll(t, from) ==
    IF matchStarts(t, from) = {} THEN <<>>
    ELSE LET p == MinOf(matchStarts(t, from))
             e == matchEnd(t, p)
         IN  <<[s |-> p, e |-> e]>> \o findAll(t, e + 1)

\* a variant of expandAll for the template "\\cite{$0}": the whole match
RECURSIVE expandAllWholeMatch(_, _, _)
expandAllWholeMatch(t, pos, ms) ==
    IF ms = <<>> THEN SubSeq(t, pos, Len(t))
    ELSE SubSeq(t, pos, ms[1].s - 1)
         \o <<CITE>> \o SubSeq(t, ms[1].s, ms[1].e) \o <<"}">>
         \o expandAllWholeMatch(t, ms[1].e + 1, Tail(ms))

\* the text from pos on with each match of ms replaced by \cite{$1}
RECURSIVE expandAll(_, _, _)
expandAll(t, pos, ms) ==
    IF ms = <<>> THEN SubSeq(t, pos, Len(t))
    ELSE SubSeq(t, pos, ms[1].s - 1)
         \o <<CITE>> \o SubSeq(t, ms[1].s + 2, ms[1].e - 1) \o <<"}">>
         \o expandAll(t, ms[1].e + 1, Tail(ms))

\* re.ReplaceAllString(t, "\\cite{$1}")
citeRewrite(t) == expandAll(t, 1, findAll(t, 1))

----------------------------------------------------------------------------
(* The author convention: type author, author.String, parseAuthor *)

AuthorPrefix == <<"Author(s): ">>
CommaSpace   == <<",", " ">>          \* ", "
CloseOpen    == <<"]", "(">>          \* "]("
Mailto       == <<"mailto:">>
AtMark       == <<"[", "at", "]">>    \* "[at]"
At           == <<"@">>

\* bufio.Scanner with the default ScanLines over b: the lines without their
\* "\n"; a final line need not end in one
RECURSIVE scanLines(_)
scanLines(bytes) ==
    IF bytes = <<>> THEN <<>>
    ELSE LET c == Cut(bytes, <<NL>>)
         IN  IF ~c.ok THEN <<bytes>> ELSE <<c.before>> \o scanLines(c.after)

\* func (a author) String(): fmt.Sprintf("%v^[Email: %v]", a.Name, a.Email)
authorString(a) == a.Name \o <<"^[Email: ">> \o a.Email \o <<"]">>

\* a variant of normalizeEmail that replaces the first "[at]" only
normalizeEmailOnce(email) ==
    LET c == Cut(email, AtMark)
    IN  IF ~c.ok THEN email ELSE c.before \o At \o c.after

\* email = strings.ReplaceAll(email, "[at]", "@")
normalizeEmail(email) == ReplaceAll(email, AtMark, At)

\* the body of the loop over authorList: the entries of one token a, none
\* when a holds no "]("
authorOf(a) ==
    LET c     == Cut(a, CloseOpen)
        name  == TrimPrefix(c.before, <<"[">>)
        email == normalizeEmail(TrimPrefix(TrimSuffix(c.after, <<")">>), Mailto))
    IN  IF ~c.ok THEN <<>>
        ELSE <<authorString([Name |-> name, Email |-> email])>>

\* the entries of the tokens of authorList, in order
RECURSIVE authorsOfList(_)
authorsOfList(authorList) ==
    IF authorList = <<>> THEN <<>>
    ELSE authorOf(Head(authorList)) \o authorsOfList(Tail(authorList))

\* the entries of the lines, in order: a line counts when it starts with
\* "Author(s): "
RECURSIVE authorsOfLines(_)
authorsOfLines(ls) ==
    IF ls = <<>> THEN <<>>
    ELSE (IF HasPrefix(Head(ls), AuthorPrefix)
          THEN authorsOfList(Split(TrimPrefix(Head(ls), AuthorPrefix), CommaSpace))
          ELSE <<>>)
         \o authorsOfLines(Tail(ls))

\* parseAuthor(b): ok is FALSE where log.Fatalf ends the process
parseAuthor(bytes) ==
    LET authors == authorsOfLines(scanLines(bytes))
    IN  [ok |-> authors # <<>>, authors |-> authors]

----------------------------------------------------------------------------
(* The date convention: convertDate, with time.Parse and Time.Format for    *)
(* the layouts "2006-01-02T15:04:05Z07:00" and "January 02, 2006".  A date  *)
(* is a sequence of one-character symbols.                                  *)

Digits == <<"0", "1", "2", "3", "4", "5", "6", "7", "8", "9">>

IsDigit(c) == \E i \in 1..10 : Digits[i] = c

DigitVal(c) == (CHOOSE i \in 1..10 : Digits[i] = c) - 1

\* the number written by the digits ds
RECURSIVE atoi(_)
atoi(ds) ==
    IF ds = <<>> THEN 0
    ELSE atoi(SubSeq(ds, 1, Len(ds) - 1)) * 10 + DigitVal(ds[Len(ds)])

\* the first n symbols of v are digits
DigitsAt(v, n) == Len(v) >= n /\ \A i \in 1..n : IsDigit(v[i])

\* getnum(value, fixed): two digits when fixed, else one or two
numLen(v, fixed) ==
    IF DigitsAt(v, 2) THEN 2
    ELSE IF ~fixed /\ DigitsAt(v, 1) THEN 1
    ELSE 0

\* the symbols of v after a fractional second ".ddd" or ",ddd", which Parse
\* accepts after the seconds although the layout has none
RECURSIVE dropDigits(_)
dropDigits(v) ==
    IF v # <<>> /\ IsDigit(Head(v)) THEN dropDigits(Tail(v)) ELSE v

skipFraction(v) ==
    IF Len(v) >= 2 /\ v[1] \in {".", ","} /\ IsDigit(v[2])
    THEN dropDigits(Tail(v))
    ELSE v

\* the zone "Z07:00": "Z", or a sign, two digits, ":" and two digits; the
\* offset in minutes east of UTC
parseZone(v) ==
    IF Len(v) >= 1 /\ v[1] = "Z"
    THEN [ok |-> TRUE, offset |-> 0, rest |-> Tail(v)]
    ELSE IF /\ Len(v) >= 6
            /\ v[1] \in {"+", "-"}
            /\ DigitsAt(SubSeq(v, 2, 3), 2)
            /\ v[4] = ":"
            /\ DigitsAt(SubSeq(v, 5, 6), 2)
            /\ atoi(SubSeq(v, 2, 3)) <= 24
            /\ atoi(SubSeq(v, 5, 6)) <= 60
    THEN [ok     |-> TRUE,
          offset |-> (IF v[1] = "-" THEN -1 ELSE 1)
                       * (atoi(SubSeq(v, 2, 3)) * 60 + atoi(SubSeq(v, 5, 6))),
          rest   |-> SubSeq(v, 7, Len(v))]
    ELSE [ok |-> FALSE, offset |-> 0, rest |-> v]

isLeap(year) == year % 4 = 0 /\ (year % 100 # 0 \/ year % 400 = 0)

\* daysIn(month, year)
daysIn(month, year) ==
    IF month = 2 THEN (IF isLeap(year) THEN 29 ELSE 28)
    ELSE IF month \in {4, 6, 9, 11} THEN 30
    ELSE 31

NoTime == [ok |-> FALSE, year |-> 0, month |-> 0, day |-> 0,
           hour |-> 0, min |-> 0, sec |-> 0, offset |-> 0]

\* time.Parse("2006-01-02T15:04:05Z07:00", date): the fields as written and
\* the zone offset; ok is FALSE where Parse returns an error
timeParse(date) ==
    LET v1   == date
        okY  == DigitsAt(v1, 4)
        v2   == SubSeq(v1, 5, Len(v1))
        okD1 == HasPrefix(v2, <<"-">>)
        v3   == Tail(v2)
        okMo == DigitsAt(v3, 2)
        v4   == SubSeq(v3, 3, Len(v3))
        okD2 == HasPrefix(v4, <<"-">>)
        v5   == Tail(v4)
        okDy == DigitsAt(v5, 2)
        v6   == SubSeq(v5, 3, Len(v5))
        okT  == HasPrefix(v6, <<"T">>)
        v7   == Tail(v6)
        nH   == numLen(v7, FALSE)
        v8   == SubSeq(v7, nH + 1, Len(v7))
        okC1 == HasPrefix(v8, <<":">>)
        v9   == Tail(v8)
        okMi == DigitsAt(v9, 2)
        v10  == SubSeq(v9, 3, Len(v9))
        okC2 == HasPrefix(v10, <<":">>)
        v11  == Tail(v10)
        okS  == DigitsAt(v11, 2)
        v12  == skipFraction(SubSeq(v11, 3, Len(v11)))
        z    == parseZone(v12)
    IN  IF ~(okY /\ okD1 /\ okMo /\ okD2 /\ okDy /\ okT /\ nH > 0
             /\ okC1 /\ okMi /\ okC2 /\ okS)
        THEN NoTime
        ELSE LET year  == atoi(SubSeq(v1, 1, 4))
                 month == atoi(SubSeq(v3, 1, 2))
                 day   == atoi(SubSeq(v5, 1, 2))
                 hour  == atoi(SubSeq(v7, 1, nH))
                 min   == atoi(SubSeq(v9, 1, 2))
                 sec   == atoi(SubSeq(v11, 1, 2))
             IN  IF /\ z.ok /\ z.rest = <<>>
                    /\ month \in 1..12
                    /\ hour < 24 /\ min < 60 /\ sec < 60
                    /\ day >= 1 /\ day <= daysIn(month, year)
                 THEN [ok |-> TRUE, year |-> year, month |-> month, day |-> day,
                       hour |-> hour, min |-> min, sec |-> sec,
                       offset |-> z.offset]
                 ELSE NoTime

\* longMonthNames
MonthNames ==
    <<"January", "February", "March", "April", "May", "June", "July",
      "August", "September", "October", "November", "December">>

\* n written with at least width digits
RECURSIVE itoa(_, _)
itoa(n, width) ==
    IF n < 10 /\ width <= 1 THEN <<Digits[n + 1]>>
    ELSE itoa(n \div 10, width - 1) \o <<Digits[(n % 10) + 1]>>

\* a variant of timeFormat for the layout "2006-01-02"
timeFormatISO(t) ==
    itoa(t.year, 4) \o <<"-">> \o itoa(t.month, 2) \o <<"-">> \o itoa(t.day, 2)

\* the calendar date of t in UTC: the fields of t moved by its zone offset
inUTC(t) ==
    LET m    == t.hour * 60 + t.min - t.offset
        prev == IF t.day > 1
                THEN [t EXCEPT !.day = t.day - 1]
                ELSE IF t.month > 1
                THEN [t EXCEPT !.month = t.month - 1,
                               !.day = daysIn(t.month - 1, t.year)]
                ELSE [t EXCEPT !.year = t.year - 1, !.month = 12, !.day = 31]
        next == IF t.day < daysIn(t.month, t.year)
                THEN [t EXCEPT !.day = t.day + 1]
                ELSE IF t.month < 12
                THEN [t EXCEPT !.month = t.month + 1, !.day = 1]
                ELSE [t EXCEPT !.year = t.year + 1, !.month = 1, !.day = 1]
    IN  IF m < 0 THEN prev ELSE IF m >= 1440 THEN next ELSE t

\* a variant of timeFormat that shows the date in UTC
timeFormatUTC(t) ==
    <<MonthNames[inUTC(t).month], " ">> \o itoa(inUTC(t).day, 2)
        \o <<",", " ">> \o itoa(inUTC(t).year, 4)

\* t.Format("January 02, 2006"): t shows the date in the zone it was parsed in
timeFormat(t) ==
    <<MonthNames[t.month], " ">> \o itoa(t.day, 2) \o <<",", " ">>
        \o itoa(t.year, 4)

\* the values of the metadata: a string, a list of strings, or another YAML
\* value
StringValue(v) == [type |-> "string", v |-> v]
ListValue(v)   == [type |-> "list", v |-> v]
OtherValue(v)  == [type |-> "other", v |-> v]

\* a map[string]any with no key
EmptyMap == [k \in {} |-> OtherValue(<<>>)]

\* the map m with m[k] = v
MapSet(m, k, v) == [x \in (DOMAIN m) \cup {k} |-> IF x = k THEN v ELSE m[x]]

\* convertDate(metaData): the map with its date rewritten; ok is FALSE
\* where log.Fatalf ends the process
convertDate(m) ==
    IF "date" \notin DOMAIN m THEN [ok |-> FALSE, metaData |-> m]
    ELSE IF m["date"].type # "string"
    THEN [ok |-> FALSE, metaData |-> m]
    ELSE LET t == timeParse(m["date"].v)
         IN  IF ~t.ok THEN [ok |-> FALSE, metaData |-> m]
             ELSE [ok       |-> TRUE,
                   metaData |-> MapSet(m, "date",
                                       StringValue(timeFormat(t)))]

----------------------------------------------------------------------------
(* The References: parseReferences *)

BibOpen  == <<"[", "^">>        \* "[^"
BibItem  == <<"\\bibitem{">>
\* a variant of BibClose for a second pattern that shares the "^" of "[^"
BibCloseSharing == <<"^", "]">>
BibClose == <<"]", ":">>        \* "]:"

\* the symbols a strict URL is made of: a scheme, then characters that can
\* end a URL (letters, "/") and punctuation that cannot; a scheme is itself
\* made of letters, ":" and "/"
UrlSchemes == {"https://", "http://"}
UrlChars   == {"example.org", "example.com", "/page", "k", "x"}
UrlPunct   == {".", ":"}

\* the end of the URL that starts at p: the longest run of URL characters
\* and punctuation after the scheme that ends in a URL character
urlEnd(t, p) ==
    LET ends == {e \in (p + 1)..Len(t) :
                    /\ t[e] \in UrlChars \cup UrlSchemes
                    /\ \A k \in (p + 1)..e :
                          t[k] \in UrlChars \cup UrlSchemes \cup UrlPunct}
    IN  IF ends = {} THEN 0 ELSE MaxOf(ends)

\* xurls.Strict().FindAllString(t, -1) from position from on: every match,
\* a URL that occurs twice is listed twice
RECURSIVE strictURLs(_, _)
strictURLs(t, from) ==
    LET starts == {p \in from..Len(t) : t[p] \in UrlSchemes /\ urlEnd(t, p) # 0}
    IN  IF starts = {} THEN <<>>
        ELSE LET p == MinOf(starts)
             IN  <<SubSeq(t, p, urlEnd(t, p))>> \o strictURLs(t, urlEnd(t, p) + 1)

\* the loop over urls: each wrapped by literal replacement, in turn
RECURSIVE wrapURLs(_, _)
wrapURLs(t, urls) ==
    IF urls = <<>> THEN t
    ELSE wrapURLs(ReplaceAll(t, Head(urls), <<"\\url{">> \o Head(urls) \o <<"}">>),
                  Tail(urls))

\* a variant of parseReferences that leaves the "]:" of a definition alone
parseReferencesOpenOnly(text) ==
    LET c  == cutReferences(text)
        c1 == ReplaceAll(c.content, BibOpen, BibItem)
        c3 == wrapURLs(c1, strictURLs(c1, 1))
    IN  IF ~c.ok THEN [ok |-> FALSE, content |-> <<>>]
        ELSE [ok      |-> TRUE,
              content |-> <<"\\begin{thebibliography}{99}">> \o c3
                            \o <<"\\end{thebibliography}">>]

\* parseReferences(b): ok is FALSE where log.Fatal ends the process
parseReferences(text) ==
    LET c  == cutReferences(text)
        c1 == ReplaceAll(c.content, BibOpen, BibItem)
        c2 == ReplaceAll(c1, BibClose, <<"}">>)
        c3 == wrapURLs(c2, strictURLs(c2, 1))
    IN  IF ~c.ok THEN [ok |-> FALSE, content |-> <<>>]
        ELSE [ok      |-> TRUE,
              content |-> <<"\\begin{thebibliography}{99}">> \o c3
                            \o <<"\\end{thebibliography}">>]

----------------------------------------------------------------------------
(* The files and the metadata of main *)

\* a file: its front matter, a list of key and value as written, and the
\* text after it
NoFile == [exists |-> FALSE, head |-> <<>>, text |-> <<>>]

File(head, text) == [exists |-> TRUE, head |-> head, text |-> text]

RefPath     == <<"content", "/posts", "/ref", ".tex">>     \* ref
ArticlePath == <<"content", "/posts", "/article", ".md">>  \* article

\* md.Convert with the meta extension, then meta.Get(context): the front
\* matter as a map
RECURSIVE metaGet(_)
metaGet(head) ==
    IF head = <<>> THEN EmptyMap
    ELSE MapSet(metaGet(SubSeq(head, 1, Len(head) - 1)),
                head[Len(head)].key, head[Len(head)].val)

\* the keys of the model, in the order yaml.Marshal writes a map: sorted
KeyOrder == <<"abstract", "author", "date", "header-includes">>

\* yaml.Marshal(metaData): the entries, by key
yamlMarshal(m) ==
    LET keys == SelectSeq(KeyOrder, LAMBDA k : k \in DOMAIN m)
    IN  [i \in 1..Len(keys) |-> [key |-> keys[i], val |-> m[keys[i]]]]

HeaderIncludes == StringValue(<<"\\usepackage{fancyhdr} ...">>)

\* dst: the path with ".md" replaced by ".pdf" and the first "/posts" cut out
dstPath(path) ==
    LET c == Cut(TrimSuffix(path, <<".md">>) \o <<".pdf">>, <<"/posts">>)
    IN  c.before \o c.after

----------------------------------------------------------------------------
(* Each specification runs one part of the program; the variables of the    *)
(* other parts then keep these values.                                      *)

\* the section variables while another specification runs
SecIdle ==
    /\ sdoc = <<>>
    /\ spc = "idle"
    /\ sres = [abstract |-> Fatal, body |-> Fatal, references |-> Fatal]

\* the author variables while another specification runs
AuthIdle ==
    /\ ain = <<>>
    /\ adoc = <<>>
    /\ apc = "idle"
    /\ ares = [ok |-> FALSE, authors |-> <<>>]

\* the variables of main while another specification runs
MainIdle ==
    /\ pc = "idle"
    /\ args = <<>>
    /\ fs = <<>>
    /\ b = NoFile
    /\ metaData = EmptyMap
    /\ abstrat = <<>>
    /\ body = <<>>
    /\ content = NoFile
    /\ references = <<>>
    /\ deferred = <<>>
    /\ exitCode = -1
    /\ failure = "none"
    /\ hist = <<>>

\* the citation variables while another specification runs
CiteIdle ==
    /\ ctext = <<>>
    /\ cout = <<>>
    /\ cprev = <<>>
    /\ cpass = 0

\* the date variables while another specification runs
DateIdle ==
    /\ din = <<>>
    /\ dmeta = EmptyMap
    /\ dpc = "idle"
    /\ dres = [ok |-> FALSE, metaData |-> EmptyMap]

\* the reference variables while another specification runs
RefIdle ==
    /\ rdoc = <<>>
    /\ rpc = "idle"
    /\ rres = [ok |-> FALSE, content |-> <<>>]

\* the path variables while another specification runs
PathIdle ==
    /\ pin = <<>>
    /\ ppath = <<>>
    /\ ppc = "idle"
    /\ pdst = <<>>

\* the variables of the two invocations while another specification runs
RaceIdle ==
    /\ racePc = <<>>
    /\ raceFs = <<>>
    /\ raceLast = <<>>
    /\ raceRead = <<>>
    /\ raceDeferred = <<>>
    /\ raceExit = <<>>

\* the variables of package mainthread while another specification runs
MtIdle ==
    /\ funcQ = <<>>
    /\ donePool = {}
    /\ doneMade = {}
    /\ initPc = "idle"
    /\ fdata = <<>>
    /\ initDone = 0
    /\ mainPc = "idle"
    /\ callPc = <<>>
    /\ callDone = <<>>
    /\ started = <<>>
    /\ begun = <<>>
    /\ finished = <<>>
    /\ returned = <<>>
    /\ early = <<>>
    /\ nested = <<>>

\* the variables of package thread while another specification runs
ThIdle ==
    /\ thWorker = "idle"
    /\ thClosed = FALSE
    /\ thClient = "idle"
    /\ thCalls = <<>>
    /\ thTerminated = 0
    /\ thRan = 0

\* the variables of MakeChan while another specification runs
ChIdle ==
    /\ chSender = "idle"
    /\ chAccepted = 0
    /\ chInClosed = FALSE
    /\ chQ = <<>>
    /\ chG = "idle"
    /\ chReceiver = "idle"
    /\ chOut = <<>>
    /\ chOutClosed = 0
    /\ chLeft = -1

RnIdle ==
    /\ rnCap = [draw |-> 0, change |-> 0]
    /\ rnE = "idle"
    /\ rnR = "idle"
    /\ rnChange = <<>>
    /\ rnDraw = <<>>
    /\ rnVal = 0
    /\ rnId = 0
    /\ rnEvents = 0
    /\ rnPrinted = -1
    /\ rnG = "idle"
    /\ rnQ = <<>>

\* no Go value
NoValue == [kind |-> "none", ptr |-> 0, data |-> 0]

\* no call yet
NoCall == [op |-> "none", h |-> 0, v |-> NoValue, valid |-> FALSE,
           panic |-> FALSE]

CgIdle ==
    /\ cgM = <<>>
    /\ cgIssued = {}
    /\ cgLast = NoCall
    /\ cgOps = 0

----------------------------------------------------------------------------
(* The frame of each part: the variables of the other parts, and their   *)
(* values while it runs.                                                  *)

secFrame ==
    <<citeVars, authVars, mainVars, dateVars, refVars, pathVars, raceVars,
    mtVars, thVars, chVars, rnVars, cgVars>>

secFrameIdle ==
    CiteIdle /\ AuthIdle /\ MainIdle /\ DateIdle /\ RefIdle /\ PathIdle /\
    RaceIdle /\ MtIdle /\ ThIdle /\ ChIdle /\ RnIdle /\ CgIdle

citeFrame ==
    <<secVars, authVars, mainVars, dateVars, refVars, pathVars, raceVars,
    mtVars, thVars, chVars, rnVars, cgVars>>

citeFrameIdle ==
    SecIdle /\ AuthIdle /\ MainIdle /\ DateIdle /\ RefIdle /\ PathIdle /\
    RaceIdle /\ MtIdle /\ ThIdle /\ ChIdle /\ RnIdle /\ CgIdle

authFrame ==
    <<secVars, citeVars, mainVars, dateVars, refVars, pathVars, raceVars,
    mtVars, thVars, chVars, rnVars, cgVars>>

authFrameIdle ==
    SecIdle /\ CiteIdle /\ MainIdle /\ DateIdle /\ RefIdle /\ PathIdle /\
    RaceIdle /\ MtIdle /\ ThIdle /\ ChIdle /\ RnIdle /\ CgIdle

mainFrame ==
    <<secVars, citeVars, authVars, dateVars, refVars, pathVars, raceVars,
    mtVars, thVars, chVars, rnVars, cgVars>>

mainFrameIdle ==
    SecIdle /\ CiteIdle /\ AuthIdle /\ DateIdle /\ RefIdle /\ PathIdle /\
    RaceIdle /\ MtIdle /\ ThIdle /\ ChIdle /\ RnIdle /\ CgIdle

dateFrame ==
    <<secVars, citeVars, authVars, mainVars, refVars, pathVars, raceVars,
    mtVars, thVars, chVars, rnVars, cgVars>>

dateFrameIdle ==
    SecIdle /\ CiteIdle /\ AuthIdle /\ MainIdle /\ RefIdle /\ PathIdle /\
    RaceIdle /\ MtIdle /\ ThIdle /\ ChIdle /\ RnIdle /\ CgIdle

refFrame ==
    <<secVars, citeVars, authVars, mainVars, dateVars, pathVars, raceVars,
    mtVars, thVars, chVars, rnVars, cgVars>>

refFrameIdle ==
    SecIdle /\ CiteIdle /\ AuthIdle /\ MainIdle /\ DateIdle /\ PathIdle /\
    RaceIdle /\ MtIdle /\ ThIdle /\ ChIdle /\ RnIdle /\ CgIdle

pathFrame ==
    <<secVars, citeVars, authVars, mainVars, dateVars, refVars, raceVars,
    mtVars, thVars, chVars, rnVars, cgVars>>

pathFrameIdle ==
    SecIdle /\ CiteIdle /\ AuthIdle /\ MainIdle /\ DateIdle /\ RefIdle /\
    RaceIdle /\ MtIdle /\ ThIdle /\ ChIdle /\ RnIdle /\ CgIdle

raceFrame ==
    <<secVars, citeVars, authVars, mainVars, dateVars, refVars, pathVars,
    mtVars, thVars, chVars, rnVars, cgVars>>

raceFrameIdle ==
    SecIdle /\ CiteIdle /\ AuthIdle /\ MainIdle /\ DateIdle /\ RefIdle /\
    PathIdle /\ MtIdle /\ ThIdle /\ ChIdle /\ RnIdle /\ CgIdle

mtFrame ==
    <<secVars, citeVars, authVars, mainVars, dateVars, refVars, pathVars,
    raceVars, thVars, chVars, rnVars, cgVars>>

mtFrameIdle ==
    SecIdle /\ CiteIdle /\ AuthIdle /\ MainIdle /\ DateIdle /\ RefIdle /\
    PathIdle /\ RaceIdle /\ ThIdle /\ ChIdle /\ RnIdle /\ CgIdle

thFrame ==
    <<secVars, citeVars, authVars, mainVars, dateVars, refVars, pathVars,
    raceVars, mtVars, chVars, rnVars, cgVars>>

thFrameIdle ==
    SecIdle /\ CiteIdle /\ AuthIdle /\ MainIdle /\ DateIdle /\ RefIdle /\
    PathIdle /\ RaceIdle /\ MtIdle /\ ChIdle /\ RnIdle /\ CgIdle

chFrame ==
    <<secVars, citeVars, authVars, mainVars, dateVars, refVars, pathVars,
    raceVars, mtVars, thVars, rnVars, cgVars>>

chFrameIdle ==
    SecIdle /\ CiteIdle /\ AuthIdle /\ MainIdle /\ DateIdle /\ RefIdle /\
    PathIdle /\ RaceIdle /\ MtIdle /\ ThIdle /\ RnIdle /\ CgIdle

rnFrame ==
    <<secVars, citeVars, authVars, mainVars, dateVars, refVars, pathVars,
    raceVars, mtVars, thVars, chVars, cgVars>>

rnFrameIdle ==
    SecIdle /\ CiteIdle /\ AuthIdle /\ MainIdle /\ DateIdle /\ RefIdle /\
    PathIdle /\ RaceIdle /\ MtIdle /\ ThIdle /\ ChIdle /\ CgIdle

cgFrame ==
    <<secVars, citeVars, authVars, mainVars, dateVars, refVars, pathVars,
    raceVars, mtVars, thVars, chVars, rnVars>>

cgFrameIdle ==
    SecIdle /\ CiteIdle /\ AuthIdle /\ MainIdle /\ DateIdle /\ RefIdle /\
    PathIdle /\ RaceIdle /\ MtIdle /\ ThIdle /\ ChIdle /\ RnIdle

\* end of the frames

----------------------------------------------------------------------------
(* SpecSections: the three section parsers on every bounded document *)

SecAlphabet == {ABS, NL, MORE, REF, "x"}

SecInit ==
    /\ sdoc \in SeqsUpTo(SecAlphabet, MaxDocLen)
    /\ spc = "input"
    /\ sres = [abstract |-> Fatal, body |-> Fatal, references |-> Fatal]
    /\ secFrameIdle

\* the three independent passes over the same document
ExtractSections ==
    /\ spc = "input"
    /\ spc' = "done"
    /\ sres' = [abstract   |-> parseAbstract(sdoc),
                body       |-> parseBody(sdoc),
                references |-> cutReferences(sdoc)]
    /\ UNCHANGED <<sdoc, secFrame>>

SecNext == ExtractSections

SpecSections == SecInit /\ [][SecNext]_vars

\* all three parsers returned (none ended the process)
AllExtracted ==
    /\ spc = "done"
    /\ sres.abstract.ok /\ sres.body.ok /\ sres.references.ok

\* r.content is the text of doc strictly between the first occurrence of
\* open and the first occurrence of close that starts after it
StrictlyBetween(doc, open, close, r) ==
    \E i \in Occurrences(doc, open) :
        /\ \A k \in Occurrences(doc, open) : i <= k
        /\ \E j \in Occurrences(doc, close) :
              /\ j >= i + Len(open)
              /\ \A k \in Occurrences(doc, close) : k >= i + Len(open) => j <= k
              /\ r.at = i + Len(open) - 1
              /\ r.content = SubSeq(doc, i + Len(open), j - 1)

\* r.content is the text of doc after the first occurrence of open
StrictlyAfter(doc, open, r) ==
    \E i \in Occurrences(doc, open) :
        /\ \A k \in Occurrences(doc, open) : i <= k
        /\ r.at = i + Len(open) - 1
        /\ r.content = SubSeq(doc, i + Len(open), Len(doc))

\* C5: on every document on which an extraction succeeds, the Abstract is
\* the text strictly between the first "<!--abstract-->\n" and the first
\* "\n<!--more-->" after it, the Body the text strictly between the first
\* "\n<!--more-->" and the first "## References" after it, the References
\* the text after the first "## References\n"; the delimiters that bound a
\* section are not part of it.
C5_SectionsAreTheDelimitedText ==
    spc = "done" =>
        /\ sres.abstract.ok =>
              StrictlyBetween(sdoc, AbstractOpen, MoreMark, sres.abstract)
        /\ sres.body.ok =>
              StrictlyBetween(sdoc, MoreMark, RefHeading, sres.body)
        /\ sres.references.ok =>
              StrictlyAfter(sdoc, RefHeadingNL, sres.references)

\* a document with a second "\n<!--more-->" and a Body, all three extracted
C5_Witness ==
    /\ AllExtracted
    /\ Cardinality(Occurrences(sdoc, MoreMark)) = 2
    /\ "x" \in {sres.body.content[i] : i \in 1..Len(sres.body.content)}

\* the half-open region [from, to) of the document that a section occupies
Region(r) == [from |-> r.at, to |-> r.at + Len(r.content)]

\* Abstract before Body before References, none overlapping another
DisjointInOrder ==
    /\ Region(sres.abstract).to <= Region(sres.body).from
    /\ Region(sres.body).to <= Region(sres.references).from

\* the first occurrences of the three opening delimiters are in the order
\* "<!--abstract-->\n", "\n<!--more-->", "## References\n", each ending
\* before the next begins
DelimitersInOrder(doc) ==
    /\ Index(doc, AbstractOpen) # 0
    /\ Index(doc, AbstractOpen) + Len(AbstractOpen) <= Index(doc, MoreMark)
    /\ Index(doc, MoreMark) + Len(MoreMark) <= Index(doc, RefHeadingNL)

\* C6 as stated: whenever all three extractions succeed, the Abstract, the
\* Body and the References are pairwise disjoint regions of the document in
\* that order (a document whose delimiters are out of order is rejected).
C6_AlwaysDisjointInOrder ==
    AllExtracted => DisjointInOrder

\* C6 as amended: whenever all three extractions succeed on a document in
\* which the first occurrences of the delimiters are in order, the three
\* sections are pairwise disjoint regions of the document in that order.
C6_DisjointWhenDelimitersInOrder ==
    (AllExtracted /\ DelimitersInOrder(sdoc)) => DisjointInOrder

\* an in-order document with an Abstract, all three extracted
C6_Witness ==
    /\ AllExtracted
    /\ DelimitersInOrder(sdoc)
    /\ sres.abstract.content = <<"x">>

----------------------------------------------------------------------------
(* SpecCite: the citation rewriting on every bounded text *)

CiteAlphabet == {"[", "^", "]", "a", NL}

AdjacentMarkers == <<"[", "^", "a", "]", "[", "^", "b", "]">>
NestedMarkers   == <<"[", "^", "[", "^", "a", "]", "]">>

CiteInit ==
    /\ ctext \in SeqsUpTo(CiteAlphabet, MaxTextLen)
                   \cup {AdjacentMarkers, NestedMarkers}
    /\ cout = ctext
    /\ cprev = ctext
    /\ cpass = 0
    /\ citeFrameIdle

\* one application of the substitution to the text
CiteRewrite ==
    /\ cpass < MaxPasses
    /\ cprev' = cout
    /\ cout' = citeRewrite(cout)
    /\ cpass' = cpass + 1
    /\ UNCHANGED <<ctext, citeFrame>>

CiteNext == CiteRewrite

SpecCite == CiteInit /\ [][CiteNext]_vars

\* the symbols of a text
Symbols(t) == {t[i] : i \in 1..Len(t)}

\* the text with every \cite{ turned back into "[^" and every "}" into "]"
RECURSIVE unCite(_)
unCite(t) ==
    IF t = <<>> THEN <<>>
    ELSE (IF Head(t) = CITE THEN <<"[", "^">>
          ELSE IF Head(t) = "}" THEN <<"]">>
          ELSE <<Head(t)>>) \o unCite(Tail(t))

\* the key of the citation that opens at position p of t
KeyAt(t, p) ==
    LET close == MinOf({e \in (p + 1)..Len(t) : t[e] = "}"})
    IN  SubSeq(t, p + 1, close - 1)

\* position p of t lies outside every citation \cite{...}
OutsideCite(t, p) ==
    Cardinality({i \in 1..(p - 1) : t[i] = CITE})
        = Cardinality({i \in 1..(p - 1) : t[i] = "}"})

\* a "]" follows position p on the line of p
ClosedOnLine(t, p) ==
    \E e \in (p + 2)..Len(t) :
        t[e] = "]" /\ \A k \in (p + 2)..(e - 1) : t[k] # NL

\* C7: the rewriting is non-greedy.  After one pass every citation stands
\* where a marker "[^key]" stood and has its key, a key never holds a "]"
\* (it ends at the nearest one, so adjacent markers are never merged), the
\* text outside the markers is unchanged, no marker of a line is left
\* unrewritten, and "[^a][^b]" becomes "\cite{a}\cite{b}".
C7_NonGreedyRewriting ==
    cpass = 1 =>
        /\ unCite(cout) = ctext
        /\ \A p \in 1..Len(cout) :
              cout[p] = CITE =>
                  /\ \E e \in (p + 1)..Len(cout) : cout[e] = "}"
                  /\ "]" \notin Symbols(KeyAt(cout, p))
                  /\ NL \notin Symbols(KeyAt(cout, p))
        /\ \A p \in 1..(Len(cout) - 1) :
              (cout[p] = "[" /\ cout[p + 1] = "^" /\ OutsideCite(cout, p))
                  => ~ClosedOnLine(cout, p)
        /\ ctext = AdjacentMarkers
              => cout = <<CITE, "a", "}", CITE, "b", "}">>

\* two adjacent markers were rewritten
C7_Witness ==
    /\ cpass = 1
    /\ ctext = AdjacentMarkers
    /\ Cardinality({p \in 1..Len(cout) : cout[p] = CITE}) = 2

\* C8 as stated: a second pass of the rewriting changes nothing, whatever
\* the input text.
C8_SecondPassChangesNothing ==
    cpass >= 2 => cout = cprev

\* a marker of t is nested in another: the key of a match holds "[^"
HasNestedMarker(t) ==
    \E i \in 1..Len(findAll(t, 1)) :
        LET m == findAll(t, 1)[i]
        IN  Occurrences(SubSeq(t, m.s + 2, m.e - 1), <<"[", "^">>) # {}

\* C8 as amended: on a text none of whose markers holds another marker's
\* opening "[^" in its key, a second pass of the rewriting changes nothing
\* and the first pass leaves no marker to match.
C8_SecondPassChangesNothingUnlessNested ==
    ~HasNestedMarker(ctext) =>
        /\ cpass >= 1 => findAll(cout, 1) = <<>>
        /\ cpass >= 2 => cout = cprev

\* a text with a marker and no nested one went through two passes
C8_Witness ==
    /\ cpass = 2
    /\ ~HasNestedMarker(ctext)
    /\ CITE \in Symbols(cout)
    /\ cout = cprev

----------------------------------------------------------------------------
(* SpecAuthor: parseAuthor on documents written from bounded parts *)

\* names, and addresses as written with the email each stands for
AuthorNames == {<<"Jane", " ", "Doe">>, <<"n">>, <<"[", "n">>}

AuthorAddrs ==
    { [raw   |-> <<"jane", "[", "at", "]", "example.com">>,
       email |-> <<"jane", "@", "example.com">>],
      [raw   |-> <<"a", "@", "b">>,
       email |-> <<"a", "@", "b">>],
      [raw   |-> <<"[", "at", "]", "[", "at", "]">>,
       email |-> <<"@", "@">>],
      [raw   |-> <<"x", ")">>,
       email |-> <<"x", ")">>],
      [raw   |-> <<"mailto:", "x">>,
       email |-> <<"mailto:", "x">>] }

\* the entries "[Name](mailto:address)" of the convention
WellFormedEntries ==
    { [text  |-> <<"[">> \o n \o <<"]", "(", "mailto:">> \o a.raw \o <<")">>,
       form  |-> "entry", name |-> n, email |-> a.email]
      : n \in AuthorNames, a \in AuthorAddrs }

\* other tokens: two without "](", one with a bare "]("
OtherTokens ==
    { [text |-> <<"n">>, form |-> "skipped", name |-> <<>>, email |-> <<>>],
      [text |-> <<"[", "n", "]">>, form |-> "skipped", name |-> <<>>, email |-> <<>>],
      [text |-> <<"n", "]", "(", "x">>, form |-> "bare", name |-> <<>>, email |-> <<>>] }

AuthorTokens == WellFormedEntries \cup OtherTokens

\* the tokens joined by ", "
RECURSIVE joinTokens(_)
joinTokens(ts) ==
    IF ts = <<>> THEN <<>>
    ELSE IF Len(ts) = 1 THEN ts[1].text
    ELSE ts[1].text \o CommaSpace \o joinTokens(Tail(ts))

JaneDoe ==
    [text  |-> <<"[", "Jane", " ", "Doe", "]", "(", "mailto:",
                 "jane", "[", "at", "]", "example.com", ")">>,
     form  |-> "entry",
     name  |-> <<"Jane", " ", "Doe">>,
     email |-> <<"jane", "@", "example.com">>]

\* what precedes the author line: nothing, a line of text, or a line that
\* holds an entry but does not begin with "Author(s): "
AuthorPres ==
    {<<>>, <<"x", NL>>, <<" ">> \o AuthorPrefix \o JaneDoe.text \o <<NL>>}

\* what follows it: nothing, a newline, a line of text, or a second author
\* line with one entry
AuthorPosts ==
    { [text |-> <<>>, toks |-> <<>>],
      [text |-> <<NL>>, toks |-> <<>>],
      [text |-> <<NL, "x">>, toks |-> <<>>],
      [text |-> <<NL>> \o AuthorPrefix \o JaneDoe.text \o <<NL>>, toks |-> <<JaneDoe>>] }

AuthInit ==
    /\ ain \in { [pre |-> pre, toks |-> ts, post |-> post]
                   : pre \in AuthorPres,
                     ts \in SeqsUpTo(AuthorTokens, MaxAuthors),
                     post \in AuthorPosts }
    /\ adoc = ain.pre \o AuthorPrefix \o joinTokens(ain.toks) \o ain.post.text
    /\ apc = "input"
    /\ ares = [ok |-> FALSE, authors |-> <<>>]
    /\ authFrameIdle

\* authors := parseAuthor(b)
ParseAuthor ==
    /\ apc = "input"
    /\ apc' = "done"
    /\ ares' = parseAuthor(adoc)
    /\ UNCHANGED <<ain, adoc, authFrame>>

AuthNext == ParseAuthor

SpecAuthor == AuthInit /\ [][AuthNext]_vars

\* the tokens of the author lines of the document, in source order, that
\* hold a "](": each gives one entry
EntryTokens ==
    SelectSeq(ain.toks \o ain.post.toks, LAMBDA t : t.form # "skipped")

\* C9: each token "[Name](mailto:address)" of a line that begins with
\* "Author(s): " gives the entry "Name^[Email: email]", email being the
\* address with every "[at]" replaced by "@"; the list holds one entry per
\* token, in source order.
C9_AuthorEntries ==
    apc = "done" =>
        /\ Len(ares.authors) = Len(EntryTokens)
        /\ \A i \in 1..Len(EntryTokens) :
              EntryTokens[i].form = "entry" =>
                  ares.authors[i] = EntryTokens[i].name \o <<"^[Email: ">>
                                      \o EntryTokens[i].email \o <<"]">>
        /\ ain.toks = <<JaneDoe>> =>
              ares.authors[1] = <<"Jane", " ", "Doe", "^[Email: ",
                                  "jane", "@", "example.com", "]">>

\* a line of two entries, the second with two "[at]", was parsed
C9_Witness ==
    /\ apc = "done"
    /\ Len(ain.toks) = 2
    /\ ain.toks[1] = JaneDoe
    /\ ain.toks[2].form = "entry"
    /\ ain.toks[2].email = <<"@", "@">>
    /\ Len(ares.authors) >= 2

----------------------------------------------------------------------------
(* Spec: one run of pdfgen, func main statement by statement *)

\* the paths given on the command line
MdPath  == <<"content", "/posts", "/bench-time", ".md">>
TxtPath == <<"content", "/posts", "/bench-time", ".txt">>

\* a markdown file in another directory
DocsPath == <<"docs", "/posts", "/notes", ".md">>

ArgLists == {<<>>, <<MdPath>>, <<TxtPath>>, <<MdPath, MdPath>>, <<DocsPath>>}

\* the paths of the files of the model
AllPaths ==
    {MdPath, TxtPath, DocsPath, RefPath, ArticlePath, dstPath(MdPath),
     dstPath(DocsPath), dstPath(ArticlePath)}

\* the front matter of the input: no date, a date that is not a string, a
\* date in the layout, a date that is not one (February 30)
DateOf(d) == <<"2", "0", "2", "0", "-">> \o d
                \o <<"T", "0", "9", ":", "0", "2", ":", "2", "0",
                     "+", "0", "1", ":", "0", "0">>

InputHeads ==
    { <<>>,
      <<[key |-> "date", val |-> OtherValue(<<"2", "0", "2", "0">>)]>>,
      <<[key |-> "date", val |-> StringValue(DateOf(<<"0", "9", "-", "3", "0">>))]>>,
      <<[key |-> "date", val |-> StringValue(DateOf(<<"0", "2", "-", "3", "0">>))]>> }

\* the author line of the input: none, one entry, or none that is an entry
InputAuthorLines ==
    { <<>>,
      AuthorPrefix \o JaneDoe.text \o <<NL>>,
      AuthorPrefix \o <<"n", NL>> }

\* the parts the rest of the input is written from
InputParts == {AbstractOpen, MoreMark, <<REF>>, <<NL>>, <<"x">>, <<MORE>>}

RECURSIVE concat(_)
concat(parts) ==
    IF parts = <<>> THEN <<>> ELSE Head(parts) \o concat(Tail(parts))

\* the keys and the entry texts of the documents with a citation
CitedKeys  == {<<"k">>, <<"x", "k">>}
CitedTexts == {<<"x">>, <<"https://", "example.org">>}

\* a document that cites key k in its Body and defines it in its References
\* as "[^k]: text"
CitedDoc(k, text) ==
    AbstractOpen \o <<"x">> \o MoreMark \o <<NL, "x", "[", "^">> \o k
        \o <<"]", NL>> \o RefHeadingNL \o <<"[", "^">> \o k
        \o <<"]", ":", " ">> \o text \o <<NL>>

\* the documents with a citation
CitedDocs ==
    { File(h, a \o CitedDoc(k, text))
        : h \in InputHeads, a \in InputAuthorLines,
          k \in CitedKeys, text \in CitedTexts }

InputDocs ==
    { File(h, a \o concat(ps))
        : h \in InputHeads, a \in InputAuthorLines,
          ps \in SeqsUpTo(InputParts, MaxParts) }
    \cup CitedDocs

\* the run reads the file its argument names
ReadsInput(as) == Len(as) = 1 /\ HasSuffix(as[1], <<".md">>)

Init ==
    /\ args \in ArgLists
    /\ \E doc \in InputDocs \cup {NoFile} :
          /\ ~ReadsInput(args) => doc = NoFile
          /\ args = <<DocsPath>> => doc \in CitedDocs \cup {NoFile}
          /\ fs = [p \in AllPaths |->
                      IF Len(args) >= 1 /\ p = args[1] THEN doc ELSE NoFile]
    /\ pc = "start"
    /\ b = NoFile
    /\ metaData = EmptyMap
    /\ abstrat = <<>>
    /\ body = <<>>
    /\ content = NoFile
    /\ references = <<>>
    /\ deferred = <<>>
    /\ exitCode = -1
    /\ failure = "none"
    /\ hist = <<>>
    /\ mainFrameIdle

path == args[1]

\* the process ends with status code and without running the deferred calls
Exit(code, what) ==
    /\ pc' = "exited"
    /\ exitCode' = code
    /\ failure' = what

\* a variant of LogFatal that logs and returns from main
LogAndReturn(what) ==
    /\ pc' = "return"
    /\ exitCode' = exitCode
    /\ failure' = what

\* log.Fatal, log.Fatalf: os.Exit(1)
LogFatal(what) == Exit(1, what)

Goto(next) ==
    /\ pc' = next
    /\ UNCHANGED <<exitCode, failure>>

\* flag.Parse, the check of len(args), the check of the extension
Start ==
    /\ pc = "start"
    /\ IF Len(args) # 1 THEN Exit(0, "usage")
       ELSE IF ~HasSuffix(path, <<".md">>) THEN LogFatal("extension")
       ELSE Goto("ReadFile")
    /\ UNCHANGED <<args, fs, b, metaData, abstrat, body, content, references,
                   deferred, hist>>
    /\ UNCHANGED mainFrame

\* b, err := os.ReadFile(path)
ReadFile ==
    /\ pc = "ReadFile"
    /\ hist' = Append(hist, "ReadFile")
    /\ IF fs[path].exists
       THEN b' = fs[path] /\ Goto("Convert")
       ELSE b' = b /\ LogFatal("load")
    /\ UNCHANGED <<args, fs, metaData, abstrat, body, content, references,
                   deferred>>
    /\ UNCHANGED mainFrame

\* md.Convert(b, &buf, parser.WithContext(context)), which may return an
\* error, and metaData := meta.Get(context)
Convert ==
    /\ pc = "Convert"
    /\ hist' = Append(hist, "Convert")
    /\ \E err \in BOOLEAN :
          IF err
          THEN metaData' = metaData /\ LogFatal("convert")
          ELSE metaData' = metaGet(b.head) /\ Goto("convertDate")
    /\ UNCHANGED <<args, fs, b, abstrat, body, content, references, deferred>>
    /\ UNCHANGED mainFrame

\* convertDate(metaData)
ConvertDate ==
    /\ pc = "convertDate"
    /\ hist' = Append(hist, "convertDate")
    /\ LET r == convertDate(metaData)
       IN  IF r.ok
           THEN metaData' = r.metaData /\ Goto("parseAuthor")
           ELSE metaData' = metaData /\ LogFatal("date")
    /\ UNCHANGED <<args, fs, b, abstrat, body, content, references, deferred>>
    /\ UNCHANGED mainFrame

\* authors := parseAuthor(b); metaData["author"] = authors
ParseAuthor_ ==
    /\ pc = "parseAuthor"
    /\ hist' = Append(hist, "parseAuthor")
    /\ LET r == parseAuthor(b.text)
       IN  IF r.ok
           THEN /\ metaData' = MapSet(metaData, "author", ListValue(r.authors))
                /\ Goto("parseAbstract")
           ELSE metaData' = metaData /\ LogFatal("author")
    /\ UNCHANGED <<args, fs, b, abstrat, body, content, references, deferred>>
    /\ UNCHANGED mainFrame

\* abstrat := parseAbstract(b)
ParseAbstract ==
    /\ pc = "parseAbstract"
    /\ hist' = Append(hist, "parseAbstract")
    /\ LET r == parseAbstract(b.text)
       IN  IF r.ok
           THEN abstrat' = r.content /\ Goto("rewriteAbstract")
           ELSE abstrat' = abstrat /\ LogFatal("abstract")
    /\ UNCHANGED <<args, fs, b, metaData, body, content, references, deferred>>
    /\ UNCHANGED mainFrame

\* abstrat = re.ReplaceAllString(abstrat, "\\cite{$1}");
\* metaData["abstract"] = abstrat; metaData["header-includes"] = ...
RewriteAbstract ==
    /\ pc = "rewriteAbstract"
    /\ hist' = Append(hist, "rewriteAbstract")
    /\ abstrat' = citeRewrite(abstrat)
    /\ metaData' = MapSet(MapSet(metaData, "abstract", StringValue(abstrat')),
                          "header-includes", HeaderIncludes)
    /\ Goto("parseBody")
    /\ UNCHANGED <<args, fs, b, body, content, references, deferred>>
    /\ UNCHANGED mainFrame

\* body := parseBody(b)
ParseBody ==
    /\ pc = "parseBody"
    /\ hist' = Append(hist, "parseBody")
    /\ LET r == parseBody(b.text)
       IN  IF r.ok
           THEN body' = r.content /\ Goto("rewriteBody")
           ELSE body' = body /\ LogFatal("body")
    /\ UNCHANGED <<args, fs, b, metaData, abstrat, content, references, deferred>>
    /\ UNCHANGED mainFrame

\* body = re.ReplaceAllString(body, "\\cite{$1}")
RewriteBody ==
    /\ pc = "rewriteBody"
    /\ hist' = Append(hist, "rewriteBody")
    /\ body' = citeRewrite(body)
    /\ Goto("Marshal")
    /\ UNCHANGED <<args, fs, b, metaData, abstrat, content, references, deferred>>
    /\ UNCHANGED mainFrame

\* head, err := yaml.Marshal(metaData), which may return an error, and
\* content := fmt.Sprintf("---\n%v\n---\n%v\n", string(head), body)
Marshal ==
    /\ pc = "Marshal"
    /\ hist' = Append(hist, "Marshal")
    /\ \E err \in BOOLEAN :
          IF err
          THEN content' = content /\ LogFatal("metadata")
          ELSE /\ content' = File(yamlMarshal(metaData), body \o <<NL>>)
               /\ Goto("parseReferences")
    /\ UNCHANGED <<args, fs, b, metaData, abstrat, body, references, deferred>>
    /\ UNCHANGED mainFrame

\* references := parseReferences(b)
ParseReferences ==
    /\ pc = "parseReferences"
    /\ hist' = Append(hist, "parseReferences")
    /\ LET r == parseReferences(b.text)
       IN  IF r.ok
           THEN references' = r.content /\ Goto("WriteRef")
           ELSE references' = references /\ LogFatal("references")
    /\ UNCHANGED <<args, fs, b, metaData, abstrat, body, content, deferred>>
    /\ UNCHANGED mainFrame

\* os.WriteFile(ref, []byte(references), os.ModePerm), which may return an
\* error, and defer os.Remove(ref)
WriteRef ==
    /\ pc = "WriteRef"
    /\ hist' = Append(hist, "WriteRef")
    /\ \E err \in BOOLEAN :
          IF err
          THEN UNCHANGED <<fs, deferred>> /\ LogFatal("write ref")
          ELSE /\ fs' = [fs EXCEPT ![RefPath] = File(<<>>, references)]
               /\ deferred' = <<RefPath>> \o deferred
               /\ Goto("WriteArticle")
    /\ UNCHANGED <<args, b, metaData, abstrat, body, content, references>>
    /\ UNCHANGED mainFrame

\* os.WriteFile(article, []byte(content), os.ModePerm), which may return an
\* error, and defer os.Remove(article)
WriteArticle ==
    /\ pc = "WriteArticle"
    /\ hist' = Append(hist, "WriteArticle")
    /\ \E err \in BOOLEAN :
          IF err
          THEN UNCHANGED <<fs, deferred>> /\ LogFatal("write article")
          ELSE /\ fs' = [fs EXCEPT ![ArticlePath] = content]
               /\ deferred' = <<ArticlePath>> \o deferred
               /\ Goto("Command")
    /\ UNCHANGED <<args, b, metaData, abstrat, body, content, references>>
    /\ UNCHANGED mainFrame

\* exec.Command("pandoc", article, ref, ..., "-o", dst).CombinedOutput():
\* the renderer exits with status 0 and has written dst, or with another
\* status
Command ==
    /\ pc = "Command"
    /\ hist' = Append(hist, "Command")
    /\ \E status \in {0, 1} :
          IF status = 0
          THEN /\ fs' = [fs EXCEPT ![dstPath(path)] = File(<<>>, <<"%PDF">>)]
               /\ Goto("return")
          ELSE fs' = fs /\ LogFatal("renderer")
    /\ UNCHANGED <<args, b, metaData, abstrat, body, content, references,
                   deferred>>
    /\ UNCHANGED mainFrame

\* the files without those of paths
RECURSIVE removeAll(_, _)
removeAll(files, paths) ==
    IF paths = <<>> THEN files
    ELSE removeAll([files EXCEPT ![Head(paths)] = NoFile], Tail(paths))

\* return: main returns, the deferred os.Remove calls run, last first, and
\* the process exits with status 0
Return ==
    /\ pc = "return"
    /\ hist' = hist \o [i \in 1..Len(deferred) |-> "Remove"]
    /\ fs' = removeAll(fs, deferred)
    /\ deferred' = <<>>
    /\ Exit(0, "none")
    /\ UNCHANGED <<args, b, metaData, abstrat, body, content, references>>
    /\ UNCHANGED mainFrame

Next ==
    \/ Start
    \/ ReadFile
    \/ Convert
    \/ ConvertDate
    \/ ParseAuthor_
    \/ ParseAbstract
    \/ RewriteAbstract
    \/ ParseBody
    \/ RewriteBody
    \/ Marshal
    \/ ParseReferences
    \/ WriteRef
    \/ WriteArticle
    \/ Command
    \/ Return

Spec == Init /\ [][Next]_vars

\* the steps that were executed
Steps == {hist[i] : i \in 1..Len(hist)}

\* the run has written a temporary file or invoked the renderer
TouchedTempFiles ==
    \/ Steps \cap {"WriteRef", "WriteArticle", "Command", "Remove"} # {}
    \/ pc \in {"WriteRef", "WriteArticle", "Command", "return"}
    \/ fs[RefPath].exists
    \/ fs[ArticlePath].exists

\* C1: when a run has reached the renderer, neither temporary file exists
\* once the process has exited, whatever the renderer's exit status.
C1_TempFilesRemovedAtExit ==
    (pc = "exited" /\ "Command" \in Steps) =>
        ~fs[RefPath].exists /\ ~fs[ArticlePath].exists

\* C2: every failure of a run ends the process with a non-zero exit status.
C2_EveryFailureExitsNonZero ==
    (pc = "exited" /\ failure # "none") => exitCode # 0

\* the text has no "<!--abstract-->\n" followed by a "\n<!--more-->"
LacksAbstract(t) ==
    ~\E i \in Occurrences(t, AbstractOpen), j \in Occurrences(t, MoreMark) :
        j >= i + Len(AbstractOpen)

\* the text has no "\n<!--more-->" followed by a "## References"
LacksBody(t) ==
    ~\E i \in Occurrences(t, MoreMark), j \in Occurrences(t, RefHeading) :
        j >= i + Len(MoreMark)

\* the text has no "## References\n"
LacksReferences(t) == Occurrences(t, RefHeadingNL) = {}

\* C3: a run on a document that lacks the delimiters of a section ends in a
\* fatal error: it writes no temporary file, does not invoke the renderer,
\* exits with status 1 if it exits, and the parser of the section that is
\* missing ends the run when it is reached.
C3_MissingDelimiterIsFatal ==
    (b.exists /\ (LacksAbstract(b.text) \/ LacksBody(b.text)
                    \/ LacksReferences(b.text))) =>
        /\ ~TouchedTempFiles
        /\ pc = "exited" => exitCode = 1
        /\ ("parseAbstract" \in Steps /\ LacksAbstract(b.text))
              => (pc = "exited" /\ failure = "abstract")
        /\ ("parseBody" \in Steps /\ LacksBody(b.text))
              => (pc = "exited" /\ failure = "body")
        /\ ("parseReferences" \in Steps /\ LacksReferences(b.text))
              => (pc = "exited" /\ failure = "references")

\* a document with an abstract and a body and "## References" without its
\* newline ended the run in parseReferences
C3_Witness ==
    /\ pc = "exited"
    /\ failure = "references"
    /\ ~LacksAbstract(b.text) /\ ~LacksBody(b.text) /\ LacksReferences(b.text)
    /\ REF \in {b.text[i] : i \in 1..Len(b.text)}

\* the steps of main in the order of its statements
ProgramOrder ==
    <<"ReadFile", "Convert", "convertDate", "parseAuthor", "parseAbstract",
      "rewriteAbstract", "parseBody", "rewriteBody", "Marshal",
      "parseReferences", "WriteRef", "WriteArticle", "Command",
      "Remove", "Remove">>

\* the step that a failure ends the run in
FailedStep ==
    [f \in {"load", "convert", "date", "author", "abstract", "body",
            "metadata", "references", "write ref", "write article", "renderer"} |->
        CASE f = "load"          -> "ReadFile"
          [] f = "convert"       -> "Convert"
          [] f = "date"          -> "convertDate"
          [] f = "author"        -> "parseAuthor"
          [] f = "abstract"      -> "parseAbstract"
          [] f = "body"          -> "parseBody"
          [] f = "metadata"      -> "Marshal"
          [] f = "references"    -> "parseReferences"
          [] f = "write ref"     -> "WriteRef"
          [] f = "write article" -> "WriteArticle"
          [] f = "renderer"      -> "Command"]

\* the stage of the pipeline that a step belongs to, by number: Load 1,
\* ExtractMetadata 2, ExtractSections 3, Transform 4, Assemble 5, Invoke 6,
\* Cleanup 7
StageOf ==
    [st \in {ProgramOrder[i] : i \in 1..Len(ProgramOrder)} |->
        CASE st = "ReadFile" -> 1
          [] st \in {"Convert", "convertDate", "parseAuthor"} -> 2
          [] st \in {"parseAbstract", "parseBody", "parseReferences"} -> 3
          [] st \in {"rewriteAbstract", "rewriteBody"} -> 4
          [] st \in {"Marshal", "WriteRef", "WriteArticle"} -> 5
          [] st = "Command" -> 6
          [] st = "Remove" -> 7]

\* no step of an earlier stage is executed after a step of a later stage
StagesInOrder ==
    \A i, j \in 1..Len(hist) : i < j => StageOf[hist[i]] <= StageOf[hist[j]]

\* the first failure ends the run, a usage error comes before any file is
\* read or written, and the renderer is invoked at most once, after both
\* temporary files were written
FailFast ==
    /\ failure # "none" => pc = "exited"
    /\ pc = "exited" => ~ENABLED Next
    /\ (pc = "exited" /\ failure \in DOMAIN FailedStep)
          => (hist # <<>> /\ hist[Len(hist)] = FailedStep[failure])
    /\ failure \in {"usage", "extension"} => (hist = <<>> /\ ~TouchedTempFiles)
    /\ Cardinality({i \in 1..Len(hist) : hist[i] = "Command"}) <= 1
    /\ (pc = "Command" \/ "Command" \in Steps) =>
          \E i, j \in 1..Len(hist) :
              /\ hist[i] = "WriteRef" /\ hist[j] = "WriteArticle"
              /\ \A k \in 1..Len(hist) : hist[k] = "Command" => (i < k /\ j < k)
    /\ pc = "Command" =>
          (fs[RefPath] = File(<<>>, references) /\ fs[ArticlePath] = content)

\* C4 as stated: the steps of a run follow the stages Load, ExtractMetadata,
\* ExtractSections, Transform, Assemble, Invoke, Cleanup in that order, no
\* stage being entered again, and the run is fail-fast.
C4_StagesInFixedOrder ==
    StagesInOrder /\ FailFast

\* C4 as amended: the steps of a run are a prefix of the statements of main
\* in program order, each executed at most once (extraction and rewriting
\* alternate section by section, and the References are extracted after the
\* metadata is assembled), and the run is fail-fast.
C4_StepsInProgramOrder ==
    /\ Len(hist) <= Len(ProgramOrder)
    /\ \A i \in 1..Len(hist) :
          \/ hist[i] = ProgramOrder[i]
          \/ (hist[i] = "Remove" /\ i > 13)
    /\ FailFast

\* a run went through every statement and removed both temporary files
C4_Witness ==
    /\ pc = "exited"
    /\ failure = "none"
    /\ hist = ProgramOrder

\* the date value is <Month> DD, YYYY
IsMonthDayYear(v) ==
    /\ Len(v) = 10
    /\ v[1] \in {MonthNames[i] : i \in 1..12}
    /\ v[2] = " "
    /\ IsDigit(v[3]) /\ IsDigit(v[4])
    /\ v[5] = "," /\ v[6] = " "
    /\ \A i \in 7..10 : IsDigit(v[i])

\* the entry of key k in a front matter
Entries(head, k) == SelectSeq(head, LAMBDA e : e.key = k)

\* the front matter has a formatted date and a list of at least one author
HasDateAndAuthors(head) ==
    /\ Len(Entries(head, "date")) = 1
    /\ Entries(head, "date")[1].val.type = "string"
    /\ IsMonthDayYear(Entries(head, "date")[1].val.v)
    /\ Len(Entries(head, "author")) = 1
    /\ Entries(head, "author")[1].val.type = "list"
    /\ Len(Entries(head, "author")[1].val.v) >= 1

\* the one front matter of the inputs whose date is in the layout
GoodHead ==
    <<[key |-> "date", val |-> StringValue(DateOf(<<"0", "9", "-", "3", "0">>))]>>

\* C10: a composite document, once assembled or written, has a date
\* <Month> DD, YYYY and at least one author in its metadata; a run on a
\* document with no date, a date that is not a string or cannot be parsed,
\* or no author entry writes no temporary file, does not invoke the
\* renderer and exits with status 1.
C10_DateAndAuthorsOrFatal ==
    /\ content.exists => HasDateAndAuthors(content.head)
    /\ fs[ArticlePath].exists => HasDateAndAuthors(fs[ArticlePath].head)
    /\ (b.exists /\ (b.head # GoodHead \/ Occurrences(b.text, CloseOpen) = {})) =>
          /\ ~TouchedTempFiles
          /\ ~content.exists
          /\ pc = "exited" => exitCode = 1
          /\ pc \in {"ReadFile", "Convert", "convertDate", "parseAuthor", "exited"}

\* a composite document was written with the date September 30, 2020
C10_Witness ==
    /\ fs[ArticlePath].exists
    /\ Entries(fs[ArticlePath].head, "date")[1].val.v
          = <<"September", " ", "3", "0", ",", " ", "2", "0", "2", "0">>

\* the input is the document that cites k and defines it with text
InputCites(k, text) ==
    /\ Len(args) = 1
    /\ args[1] = MdPath
    /\ fs[MdPath].exists
    /\ \E a \in InputAuthorLines : fs[MdPath].text = a \o CitedDoc(k, text)

\* text with its URL, if it is one, wrapped
Linked(text) ==
    IF text = <<"https://", "example.org">>
    THEN <<"\\url{">> \o text \o <<"}">>
    ELSE text

\* C13: for a document that cites key k in its Body and defines it in its
\* References, once both temporary files are written the composite document
\* holds \cite{k} where the marker stood, and the Bibliography document is
\* \begin{thebibliography}{99}, the entry \bibitem{k} with its text, and
\* \end{thebibliography}.
C13_CitationKeysPreserved ==
    \A k \in CitedKeys, text \in CitedTexts :
        (InputCites(k, text) /\ fs[ArticlePath].exists) =>
            /\ fs[ArticlePath].text
                 = <<NL, "x", CITE>> \o k \o <<"}", NL, NL>>
            /\ fs[RefPath].text
                 = <<"\\begin{thebibliography}{99}", "\\bibitem{">> \o k
                     \o <<"}", " ">> \o Linked(text)
                     \o <<NL, "\\end{thebibliography}">>

\* both temporary files written for a document that cites a two-symbol key
\* and defines it with a URL
C13_Witness ==
    /\ InputCites(<<"x", "k">>, <<"https://", "example.org">>)
    /\ fs[ArticlePath].exists
    /\ fs[RefPath].exists
    /\ pc = "Command"

\* the directory of the file p: p without its file name and extension
DirOf(p) == SubSeq(p, 1, Len(p) - 2)

\* C15: a temporary file that exists was written into the directory of the
\* input file.
C15_TempFilesBesideInput ==
    \A p \in {RefPath, ArticlePath} :
        (fs # <<>> /\ fs[p].exists) => DirOf(p) = DirOf(args[1])

\* both temporary files written on a run whose input is in docs/posts
C15_Witness ==
    /\ args = <<DocsPath>>
    /\ pc = "Command"
    /\ fs[RefPath].exists /\ fs[ArticlePath].exists

\* C26: when the write of content/posts/article.md fails after
\* content/posts/ref.tex was written, ref.tex does not exist once the
\* process has exited.
C26_RefRemovedWhenArticleFails ==
    (pc = "exited" /\ failure = "write article") => ~fs[RefPath].exists

\* the process has exited on the failed write of article.md and ref.tex,
\* with the bibliography in it, is still there
C26_Witness ==
    /\ pc = "exited"
    /\ failure = "write article"
    /\ exitCode = 1
    /\ fs[RefPath] = File(<<>>, references)

\* a run on one markdown file, whose path may be that of the temporary
\* article, holding a document with a citation, or on a path with no file
InitAnyPath ==
    /\ args \in {<<MdPath>>, <<DocsPath>>, <<ArticlePath>>}
    /\ \E doc \in CitedDocs \cup {NoFile} :
          fs = [p \in AllPaths |-> IF p = args[1] THEN doc ELSE NoFile]
    /\ pc = "start"
    /\ b = NoFile
    /\ metaData = EmptyMap
    /\ abstrat = <<>>
    /\ body = <<>>
    /\ content = NoFile
    /\ references = <<>>
    /\ deferred = <<>>
    /\ exitCode = -1
    /\ failure = "none"
    /\ hist = <<>>
    /\ mainFrameIdle

SpecAnyPath == InitAnyPath /\ [][Next]_vars

\* the files a run may create, overwrite or remove
OutputPaths == {RefPath, ArticlePath, dstPath(args[1])}

\* C28: once the process has exited, the input file that was read still
\* exists with the contents that were read, also when its path is that of
\* the temporary article, and no file other than the two temporary files
\* and the rendered output was created.
C28_InputUntouched ==
    (pc = "exited" /\ b.exists) =>
        /\ fs[args[1]] = b
        /\ \A p \in AllPaths \ (OutputPaths \cup {args[1]}) : ~fs[p].exists

\* the input was content/posts/article.md, the run reached the renderer,
\* and the file is gone once the process has exited with status 0
C28_Witness ==
    /\ pc = "exited"
    /\ exitCode = 0
    /\ args = <<ArticlePath>>
    /\ b.exists
    /\ ~fs[ArticlePath].exists

----------------------------------------------------------------------------
(* SpecDate: convertDate on dates written from a year, a month and day, a   *)
(* time of day and a zone                                                   *)

\* the years: as written, and whether the year is a leap year
DateYears ==
    { [text |-> <<"2", "0", "2", "0">>, leap |-> TRUE],
      [text |-> <<"2", "0", "2", "1">>, leap |-> FALSE],
      [text |-> <<"0", "9", "0", "0">>, leap |-> FALSE] }

\* the month and day: as written, as the output names them, and in which
\* years the day exists
DateDays ==
    { [text |-> <<"0", "1", "-", "0", "1">>,
       out  |-> <<"January", " ", "0", "1">>, real |-> "always"],
      [text |-> <<"0", "2", "-", "2", "9">>,
       out  |-> <<"February", " ", "2", "9">>, real |-> "leap"],
      [text |-> <<"0", "2", "-", "3", "0">>,
       out  |-> <<"February", " ", "3", "0">>, real |-> "never"],
      [text |-> <<"0", "3", "-", "0", "1">>,
       out  |-> <<"March", " ", "0", "1">>, real |-> "always"],
      [text |-> <<"0", "9", "-", "3", "0">>,
       out  |-> <<"September", " ", "3", "0">>, real |-> "always"],
      [text |-> <<"0", "9", "-", "3", "1">>,
       out  |-> <<"September", " ", "3", "1">>, real |-> "never"],
      [text |-> <<"1", "2", "-", "3", "1">>,
       out  |-> <<"December", " ", "3", "1">>, real |-> "always"] }

\* the time of day, hh:mm:ss
DateTimes ==
    { <<"0", "0", ":", "0", "0", ":", "0", "0">>,
      <<"0", "9", ":", "0", "2", ":", "2", "0">>,
      <<"2", "3", ":", "5", "9", ":", "5", "9">> }

\* the zone: Z or an offset
DateZones ==
    { <<"Z">>,
      <<"+", "0", "1", ":", "0", "0">>,
      <<"-", "0", "0", ":", "3", "0">>,
      <<"+", "1", "4", ":", "0", "0">>,
      <<"-", "1", "1", ":", "0", "0">> }

\* the date as the front matter writes it
dateText(parts) ==
    parts.year.text \o <<"-">> \o parts.day.text \o <<"T">> \o parts.time
        \o parts.zone

DateInit ==
    /\ din \in [year : DateYears, day : DateDays, time : DateTimes,
                 zone : DateZones]
    /\ dmeta = metaGet(<<[key |-> "title", val |-> StringValue(<<"t">>)],
                         [key |-> "date", val |-> StringValue(dateText(din))]>>)
    /\ dpc = "input"
    /\ dres = [ok |-> FALSE, metaData |-> EmptyMap]
    /\ dateFrameIdle

\* convertDate(metaData)
RunConvertDate ==
    /\ dpc = "input"
    /\ dpc' = "done"
    /\ dres' = convertDate(dmeta)
    /\ UNCHANGED <<din, dmeta, dateFrame>>

DateNext == RunConvertDate

SpecDate == DateInit /\ [][DateNext]_vars

\* the day the date names exists in its year
RealDate(parts) ==
    \/ parts.day.real = "always"
    \/ parts.day.real = "leap" /\ parts.year.leap

\* C11: every date of the layout that names a real day is rewritten to the
\* month name, the two-digit day and the four-digit year as written in it,
\* whatever its time of day and its zone offset.
C11_DateAsWritten ==
    (dpc = "done" /\ RealDate(din)) =>
        /\ dres.ok
        /\ dres.metaData["date"]
             = StringValue(din.day.out \o <<",", " ">> \o din.year.text)

\* the last second of a year, in a zone eleven hours behind UTC, converted
C11_Witness ==
    /\ dpc = "done"
    /\ dres.ok
    /\ din.day.text = <<"1", "2", "-", "3", "1">>
    /\ din.time = <<"2", "3", ":", "5", "9", ":", "5", "9">>
    /\ din.zone = <<"-", "1", "1", ":", "0", "0">>
    /\ dres.metaData["date"].v[1] = "December"

----------------------------------------------------------------------------
(* SpecRefs: parseReferences on every References text written from a few    *)
(* parts                                                                    *)

\* most parts of one References text
MaxRefParts == 4

ShortURL == <<"https://", "example.org">>
LongURL  == <<"https://", "example.org", "/page">>

\* the parts: two URLs, one a prefix of the other, and single characters
RefParts ==
    { ShortURL, LongURL, <<" ">>, <<".">>, <<"[">>, <<"^">>, <<"]">>, <<":">>,
      <<"k">>, <<NL>> }

RefTexts == {concat(ps) : ps \in SeqsUpTo(RefParts, MaxRefParts)}

RefInit ==
    /\ rdoc \in {RefHeadingNL \o t : t \in RefTexts}
    /\ rpc = "input"
    /\ rres = [ok |-> FALSE, content |-> <<>>]
    /\ refFrameIdle

\* parseReferences(b)
RunParseReferences ==
    /\ rpc = "input"
    /\ rpc' = "done"
    /\ rres' = parseReferences(rdoc)
    /\ UNCHANGED <<rdoc, refFrame>>

RefNext == RunParseReferences

SpecRefs == RefInit /\ [][RefNext]_vars

\* the References text after the two literal substitutions: the text the
\* URLs are detected in
Substituted(doc) ==
    ReplaceAll(ReplaceAll(cutReferences(doc).content, BibOpen, BibItem),
               BibClose, <<"}">>)

\* the text t from pos on with every detected URL wrapped where it stands
RECURSIVE wrapInPlace(_, _)
wrapInPlace(t, pos) ==
    LET starts == {q \in pos..Len(t) : t[q] \in UrlSchemes /\ urlEnd(t, q) # 0}
    IN  IF starts = {} THEN SubSeq(t, pos, Len(t))
        ELSE LET q == MinOf(starts)
             IN  SubSeq(t, pos, q - 1)
                 \o <<"\\url{">> \o SubSeq(t, q, urlEnd(t, q)) \o <<"}">>
                 \o wrapInPlace(t, urlEnd(t, q) + 1)

\* the Bibliography document without its first and last symbol
Inner(doc) == SubSeq(doc, 2, Len(doc) - 1)

\* the URLs detected in t, as a set
DetectedURLs(t) == {strictURLs(t, 1)[i] : i \in 1..Len(strictURLs(t, 1))}

\* a "\url{" that opens directly inside another
NestedWrapper(t) ==
    \E i \in 1..(Len(t) - 1) : t[i] = "\\url{" /\ t[i + 1] = "\\url{"

\* C12: when the References hold one URL, once or several times, every
\* occurrence of it is wrapped in exactly one \url{...} and none is nested
\* in a second wrapper.
C12_EachURLWrappedOnce ==
    (rpc = "done" /\ rres.ok
        /\ Cardinality(DetectedURLs(Substituted(rdoc))) = 1) =>
        /\ Inner(rres.content) = wrapInPlace(Substituted(rdoc), 1)
        /\ ~NestedWrapper(rres.content)

\* a References text with the same URL twice, converted
C12_Witness ==
    /\ rpc = "done" /\ rres.ok
    /\ strictURLs(Substituted(rdoc), 1) = <<ShortURL, ShortURL>>

\* the URLs detected in the text of doc are the two URLs, one a prefix of
\* the other, once each
BothURLsOnce(doc) ==
    strictURLs(Substituted(doc), 1) \in
        {<<ShortURL, LongURL>>, <<LongURL, ShortURL>>}

\* C29: when the References hold two different URLs, one a prefix of the
\* other, each is wrapped where it stands in exactly one \url{...}, whole,
\* and the text outside them is as it was after the literal substitutions.
C29_WrappingLeavesOtherURLsAlone ==
    (rpc = "done" /\ rres.ok /\ BothURLsOnce(rdoc)) =>
        Inner(rres.content) = wrapInPlace(Substituted(rdoc), 1)

\* the longer URL first, then its prefix: the prefix is wrapped again
\* inside the wrapper of the longer one, which is cut in two
C29_Witness ==
    /\ rpc = "done"
    /\ rdoc = RefHeadingNL \o LongURL \o <<" ">> \o ShortURL
    /\ Inner(rres.content)
          = <<"\\url{", "\\url{">> \o ShortURL \o <<"}", "/page", "}", " ",
              "\\url{">> \o ShortURL \o <<"}">>

----------------------------------------------------------------------------
(* SpecPath: the output path of every input path D/posts/N.md written from  *)
(* a few directory and file names.  A path is a sequence of symbols, the    *)
(* text "/posts" being one symbol wherever it occurs.                       *)

\* most directories of D below its first one
MaxDirs == 3

\* where D starts: a relative directory, the working directory, the root
PathRoots == {<<"content">>, <<".">>, <<>>}

\* the directories of D: "/a", "/posts", "/postscript"
PathDirs == {<<"/a">>, <<"/posts">>, <<"/posts", "cript">>}

\* the file names N: "/n", "/posts-list", "/n.md"
PathNames == {<<"/n">>, <<"/posts", "-list">>, <<"/n", ".md">>}

PathInit ==
    /\ pin \in [root : PathRoots, dirs : SeqsUpTo(PathDirs, MaxDirs),
                 name : PathNames]
    /\ ppath = pin.root \o concat(pin.dirs) \o <<"/posts">> \o pin.name
                    \o <<".md">>
    /\ ppc = "input"
    /\ pdst = <<>>
    /\ pathFrameIdle

\* before, after, _ := strings.Cut(...); dst := before + after
ComputeDst ==
    /\ ppc = "input"
    /\ HasSuffix(ppath, <<".md">>)
    /\ ppc' = "done"
    /\ pdst' = dstPath(ppath)
    /\ UNCHANGED <<pin, ppath, pathFrame>>

PathNext == ComputeDst

SpecPath == PathInit /\ [][PathNext]_vars

\* C14: for the input path D/posts/N.md the output path is D/N.pdf.
C14_OutputInParentOfPosts ==
    ppc = "done" =>
        pdst = pin.root \o concat(pin.dirs) \o pin.name \o <<".pdf">>

\* the output path computed for a path with a second posts directory in D
C14_Witness ==
    /\ ppc = "done"
    /\ pin.dirs = <<<<"/posts">>, <<"/a">>>>
    /\ pin.root = <<"content">>

----------------------------------------------------------------------------
(* SpecRace: two invocations of pdfgen in one working directory, each with  *)
(* its own input, from the point where main has computed content and        *)
(* references: the writes of the temporary files, the renderer, which reads  *)
(* the composite document and then the bibliography, and the deferred        *)
(* removals.  A file holds the number of the invocation whose text it has,   *)
(* 0 when it does not exist.                                                 *)

Invocations == {1, 2}

TempPaths == {RefPath, ArticlePath}

Unread == [saw |-> -1, last |-> -1]

RaceInit ==
    /\ racePc = [i \in Invocations |-> "WriteRef"]
    /\ raceFs = [p \in TempPaths |-> 0]
    /\ raceLast = [p \in TempPaths |-> 0]
    /\ raceRead = [i \in Invocations |-> [p \in TempPaths |-> Unread]]
    /\ raceDeferred = [i \in Invocations |-> <<>>]
    /\ raceExit = [i \in Invocations |-> -1]
    /\ raceFrameIdle

\* os.Exit(code) of invocation i: no deferred call runs
RaceExit(i, code) ==
    /\ racePc' = [racePc EXCEPT ![i] = "exited"]
    /\ raceExit' = [raceExit EXCEPT ![i] = code]

RaceGoto(i, next) ==
    /\ racePc' = [racePc EXCEPT ![i] = next]
    /\ UNCHANGED raceExit

\* a variant of RaceWrite that goes on without writing the file
RaceSkipWrite(i, p, next) ==
    /\ raceDeferred' = [raceDeferred EXCEPT ![i] = <<p>> \o @]
    /\ RaceGoto(i, next)
    /\ UNCHANGED <<raceFs, raceLast, raceRead, raceFrame>>

\* os.WriteFile(p, ...) by invocation i and defer os.Remove(p), or the
\* error of os.WriteFile and log.Fatalf
RaceWrite(i, p, next) ==
    /\ \E err \in BOOLEAN :
          IF err
          THEN UNCHANGED <<raceFs, raceLast, raceDeferred>> /\ RaceExit(i, 1)
          ELSE /\ raceFs' = [raceFs EXCEPT ![p] = i]
               /\ raceLast' = [raceLast EXCEPT ![p] = i]
               /\ raceDeferred' = [raceDeferred EXCEPT ![i] = <<p>> \o @]
               /\ RaceGoto(i, next)
    /\ UNCHANGED <<raceRead, raceFrame>>

\* invocation i writes content/posts/ref.tex
RaceWriteRef(i) ==
    /\ racePc[i] = "WriteRef"
    /\ RaceWrite(i, RefPath, "WriteArticle")

\* invocation i writes content/posts/article.md
RaceWriteArticle(i) ==
    /\ racePc[i] = "WriteArticle"
    /\ RaceWrite(i, ArticlePath, "ReadArticle")

\* the renderer of invocation i opens p: it reads what the file holds now,
\* or fails when there is no file, and then log.Fatal ends the invocation
RaceOpen(i, p, next) ==
    /\ raceRead' = [raceRead EXCEPT
                       ![i][p] = [saw |-> raceFs[p], last |-> raceLast[p]]]
    /\ IF raceFs[p] = 0 THEN RaceExit(i, 1) ELSE RaceGoto(i, next)
    /\ UNCHANGED <<raceFs, raceLast, raceDeferred, raceFrame>>

\* pandoc article ref ...: the first input file
RaceReadArticle(i) ==
    /\ racePc[i] = "ReadArticle"
    /\ RaceOpen(i, ArticlePath, "ReadRef")

\* pandoc article ref ...: the second input file
RaceReadRef(i) ==
    /\ racePc[i] = "ReadRef"
    /\ RaceOpen(i, RefPath, "Render")

\* the renderer of invocation i ends, with status 0 or another
RaceRender(i) ==
    /\ racePc[i] = "Render"
    /\ \E status \in {0, 1} :
          IF status = 0 THEN RaceGoto(i, "return") ELSE RaceExit(i, 1)
    /\ UNCHANGED <<raceFs, raceLast, raceRead, raceDeferred, raceFrame>>

\* the files after os.Remove of each of paths by invocation i
RECURSIVE raceRemoved(_, _)
raceRemoved(files, paths) ==
    IF paths = <<>> THEN files
    ELSE raceRemoved([files EXCEPT ![Head(paths)] = 0], Tail(paths))

\* return of invocation i: its deferred os.Remove calls run
RaceReturn(i) ==
    /\ racePc[i] = "return"
    /\ raceFs' = raceRemoved(raceFs, raceDeferred[i])
    /\ raceLast' = [p \in TempPaths |->
                       IF \E k \in 1..Len(raceDeferred[i]) :
                             raceDeferred[i][k] = p
                       THEN i ELSE raceLast[p]]
    /\ raceDeferred' = [raceDeferred EXCEPT ![i] = <<>>]
    /\ RaceExit(i, 0)
    /\ UNCHANGED <<raceRead, raceFrame>>

RaceNext ==
    \E i \in Invocations :
        \/ RaceWriteRef(i)
        \/ RaceWriteArticle(i)
        \/ RaceReadArticle(i)
        \/ RaceReadRef(i)
        \/ RaceRender(i)
        \/ RaceReturn(i)

SpecRace == RaceInit /\ [][RaceNext]_vars

\* the other invocation
OtherInvocation(i) == 3 - i

\* C16: the renderer of an invocation finds at a temporary path something
\* else than the file its own invocation wrote only if the other invocation
\* was the last to write or remove that file; and this happens: see
\* C16_Witness.
C16_ForeignFileOnlyByRace ==
    \A i \in Invocations, p \in TempPaths :
        (raceRead[i][p] # Unread /\ raceRead[i][p].saw # i) =>
            raceRead[i][p].last = OtherInvocation(i)

\* the renderer of invocation 1 has read the composite document and the
\* bibliography written by invocation 2, and the renderer of invocation 2
\* has found the composite document removed by invocation 1
C16_Witness ==
    /\ raceRead[1][ArticlePath] = [saw |-> 2, last |-> 2]
    /\ raceRead[1][RefPath] = [saw |-> 2, last |-> 2]
    /\ raceRead[2][ArticlePath] = [saw |-> 0, last |-> 1]
    /\ raceExit[1] = 0

----------------------------------------------------------------------------
(* SpecMainthread: package mainthread (mainthread-opt2).  Init runs its     *)
(* loop on the main thread while the goroutine it started runs main();      *)
(* other goroutines call Call.  A done channel is unbuffered: a send and a   *)
(* receive on it happen together.                                           *)

\* the goroutines that call Call
NCallers == 2

\* the calls of Call one goroutine makes, one after the other
MaxCalls == 2

\* cap(funcQ): runtime.GOMAXPROCS(0)
QCap == 1

Callers == 1..NCallers

\* the done channels that can exist: one for each goroutine that can hold
\* one, Init on the main thread holding its own and that of a nested Call
DoneChans == 1..(NCallers + 2)

\* a variant of FreeDone that also hands out channels that are in use
AnyDone == DoneChans

\* donePool.Get(): a channel of the pool, or a new one from New
FreeDone ==
    donePool \cup
        (IF DoneChans \ doneMade = {} THEN {}
         ELSE {MinOf(DoneChans \ doneMade)})

\* Init after "done := donePool.Get()" and "go func() {...}()"
MtInit ==
    /\ funcQ = <<>>
    /\ donePool = {}
    /\ doneMade = {1}
    /\ initPc = "loop"
    /\ fdata = [fn |-> 0, done |-> 0]
    /\ initDone = 1
    /\ mainPc = "main"
    /\ callPc = [c \in Callers |-> "idle"]
    /\ callDone = [c \in Callers |-> 0]
    /\ started = [c \in Callers |-> 0]
    /\ begun = [c \in Callers |-> 0]
    /\ finished = [c \in Callers |-> 0]
    /\ returned = [c \in Callers |-> 0]
    /\ early = [c \in Callers |-> FALSE]
    /\ nested = [pc |-> "none", done |-> 0]
    /\ mtFrameIdle

\* Call: done := donePool.Get().(chan struct{})
CallGet(c) ==
    /\ callPc[c] = "idle"
    /\ started[c] < MaxCalls
    /\ \E ch \in FreeDone :
          /\ callDone' = [callDone EXCEPT ![c] = ch]
          /\ donePool' = donePool \ {ch}
          /\ doneMade' = doneMade \cup {ch}
    /\ started' = [started EXCEPT ![c] = @ + 1]
    /\ callPc' = [callPc EXCEPT ![c] = "send"]
    /\ early' = [early EXCEPT ![c] = (mainPc = "main")]
    /\ UNCHANGED <<funcQ, initPc, fdata, initDone, mainPc, begun, finished,
                   returned, nested, mtFrame>>

\* Call: funcQ <- funcdata{fn: f, done: done}
CallSend(c) ==
    /\ callPc[c] = "send"
    /\ Len(funcQ) < QCap
    /\ funcQ' = Append(funcQ, [fn |-> c, done |-> callDone[c]])
    /\ callPc' = [callPc EXCEPT ![c] = "recv"]
    /\ UNCHANGED <<donePool, doneMade, initPc, fdata, initDone, mainPc,
                   callDone, started, begun, finished, returned, early, nested,
                   mtFrame>>

\* Init: case fdata := <-funcQ, and fdata.fn() begins on the main thread
InitTake ==
    /\ initPc = "loop"
    /\ funcQ # <<>>
    /\ fdata' = Head(funcQ)
    /\ funcQ' = Tail(funcQ)
    /\ begun' = [begun EXCEPT ![Head(funcQ).fn] = @ + 1]
    /\ initPc' = "fn"
    /\ UNCHANGED <<donePool, doneMade, initDone, mainPc, callPc, callDone,
                   started, finished, returned, early, nested,
                   mtFrame>>

\* fdata.fn() calls Call on the main thread: done := donePool.Get()
FnCallGet ==
    /\ initPc = "fn"
    /\ nested.pc = "none"
    /\ \E ch \in FreeDone :
          /\ nested' = [pc |-> "send", done |-> ch]
          /\ donePool' = donePool \ {ch}
          /\ doneMade' = doneMade \cup {ch}
    /\ UNCHANGED <<funcQ, initPc, fdata, initDone, mainPc, callPc, callDone,
                   started, begun, finished, returned, early, mtFrame>>

\* the Call of fdata.fn(): funcQ <- funcdata{fn: f, done: done}, and the
\* main thread goes on to "<-done"
FnCallSend ==
    /\ nested.pc = "send"
    /\ Len(funcQ) < QCap
    /\ funcQ' = Append(funcQ, [fn |-> 0, done |-> nested.done])
    /\ nested' = [nested EXCEPT !.pc = "recv"]
    /\ UNCHANGED <<donePool, doneMade, initPc, fdata, initDone, mainPc,
                   callPc, callDone, started, begun, finished, returned,
                   early, mtFrame>>

\* Init: fdata.fn() returns, when it is not inside a Call
FnReturn ==
    /\ initPc = "fn"
    /\ nested.pc = "none"
    /\ finished' = [finished EXCEPT ![fdata.fn] = @ + 1]
    /\ initPc' = "signal"
    /\ UNCHANGED <<funcQ, donePool, doneMade, fdata, initDone, mainPc, callPc,
                   callDone, started, begun, returned, early, nested,
                   mtFrame>>

\* the goroutines ready to receive from the done channel ch: Init in its
\* select, when ch is its channel, and the callers at "<-done" with ch
Receivers(ch) ==
    (IF initPc = "loop" /\ ch = initDone THEN {0} ELSE {})
        \cup {c \in Callers : callPc[c] = "recv" /\ callDone[c] = ch}

\* goroutine r receives from its done channel: a caller goes on to return,
\* Init returns and its deferred donePool.Put(done) runs
Receive(r) ==
    IF r = 0
    THEN /\ initPc' = "returned"
         /\ donePool' = donePool \cup {initDone}
         /\ UNCHANGED callPc
    ELSE /\ callPc' = [callPc EXCEPT ![r] = "put"]
         /\ UNCHANGED <<initPc, donePool>>

\* Init: fdata.done <- struct{}{}
InitSignal ==
    /\ initPc = "signal"
    /\ \E r \in Receivers(fdata.done) :
          /\ callPc' = [callPc EXCEPT ![r] = "put"]
          /\ initPc' = "loop"
    /\ UNCHANGED <<funcQ, donePool, doneMade, fdata, initDone, mainPc,
                   callDone, started, begun, finished, returned, early, nested,
                   mtFrame>>

\* Call: the deferred donePool.Put(done), and Call returns
CallPut(c) ==
    /\ callPc[c] = "put"
    /\ donePool' = donePool \cup {callDone[c]}
    /\ returned' = [returned EXCEPT ![c] = @ + 1]
    /\ callPc' = [callPc EXCEPT ![c] = "idle"]
    /\ UNCHANGED <<funcQ, doneMade, initPc, fdata, initDone, mainPc, callDone,
                   started, begun, finished, early, nested,
                   mtFrame>>

\* the goroutine of Init: main() returns
MainReturn ==
    /\ mainPc = "main"
    /\ mainPc' = "signal"
    /\ UNCHANGED <<funcQ, donePool, doneMade, initPc, fdata, initDone, callPc,
                   callDone, started, begun, finished, returned, early, nested,
                   mtFrame>>

\* the goroutine of Init: done <- struct{}{}
MainSignal ==
    /\ mainPc = "signal"
    /\ \E r \in Receivers(initDone) : Receive(r)
    /\ mainPc' = "end"
    /\ UNCHANGED <<funcQ, doneMade, fdata, initDone, callDone, started, begun,
                   finished, returned, early, nested,
                   mtFrame>>

MtNext ==
    \/ \E c \in Callers : CallGet(c) \/ CallSend(c) \/ CallPut(c)
    \/ InitTake
    \/ FnCallGet
    \/ FnCallSend
    \/ FnReturn
    \/ InitSignal
    \/ MainReturn
    \/ MainSignal

SpecMainthread == MtInit /\ [][MtNext]_vars

\* C17: a function passed to Call is executed at most once, only by Init
\* (one at a time, for Init executes one funcdata after the other), and
\* exactly once by the time its Call returns: the k-th Call of a goroutine
\* returns only after the k-th of its functions has finished.
C17_CallRunsOnceOnMainThread ==
    \A c \in Callers :
        /\ begun[c] <= started[c]
        /\ finished[c] <= begun[c]
        /\ returned[c] <= finished[c]
        /\ callPc[c] = "idle" => begun[c] = started[c]
        /\ callPc[c] = "put" => finished[c] = started[c]

\* both goroutines have made all their calls, the second with a done
\* channel taken from the pool, while the function of Init is still running
C17_Witness ==
    /\ \A c \in Callers : returned[c] = MaxCalls /\ callPc[c] = "idle"
    /\ mainPc = "main"
    /\ Cardinality(doneMade) = 2

\* the goroutines are scheduled and the functions return: a step of Call or
\* of Init that can happen does happen.  Whether a goroutine calls Call,
\* whether a function calls Call and whether main() returns is up to the
\* program.
SpecMainthreadFair ==
    /\ SpecMainthread
    /\ \A c \in Callers : WF_vars(CallSend(c)) /\ WF_vars(CallPut(c))
    /\ WF_vars(InitTake)
    /\ WF_vars(FnCallSend)
    /\ WF_vars(FnReturn)
    /\ WF_vars(InitSignal)
    /\ WF_vars(MainSignal)

\* C30: a Call that began while main() was running returns eventually,
\* whether a goroutine made it or the function that Init is executing on
\* the main thread.
C30_EarlyCallsReturn ==
    /\ \A c \in Callers :
          (callPc[c] = "send" /\ early[c]) ~> (callPc[c] = "idle")
    /\ (nested.pc = "send" /\ mainPc = "main") ~> (nested.pc = "none")

\* Init has returned while a Call that began while main() was running
\* waits on its done channel, its funcdata still in funcQ
C30_Witness ==
    /\ initPc = "returned"
    /\ \E c \in Callers :
          /\ early[c]
          /\ callPc[c] = "recv"
          /\ \E i \in 1..Len(funcQ) : funcQ[i].fn = c

----------------------------------------------------------------------------
(* SpecThread: package thread.  One goroutine makes a Thread with New and   *)
(* then calls Call and Terminate on it, one call after the other; the       *)
(* goroutine started by New is the worker.  t.f, t.terminate and the done    *)
(* channel are unbuffered: a send and a receive happen together.            *)

\* the calls of Call and Terminate the client makes
MaxThreadOps == 4

\* the calls made so far
ThreadOps == Len(thCalls) + thTerminated

\* after New
ThInit ==
    /\ thWorker = "loop"
    /\ thClosed = FALSE
    /\ thClient = "ready"
    /\ thCalls = <<>>
    /\ thTerminated = 0
    /\ thRan = 0
    /\ thFrameIdle

\* Call(f) begins: f == nil, or the select on t.terminate, which is ready
\* only when the channel is closed (nobody else sends on it); the default
\* branch takes a done channel and goes on to the send
ThCall ==
    /\ thClient = "ready"
    /\ ThreadOps < MaxThreadOps
    /\ \E f \in {"nil", "fn"} :
          IF f = "nil" \/ thClosed
          THEN /\ thCalls' = Append(thCalls, FALSE)
               /\ UNCHANGED thClient
          ELSE /\ thClient' = "t.f <-"
               /\ UNCHANGED thCalls
    /\ UNCHANGED <<thWorker, thClosed, thTerminated, thRan, thFrame>>

\* Call: t.f <- funcData{fn: f, done: done}, received by the worker's
\* select, and f.fn() begins
ThSend ==
    /\ thClient = "t.f <-"
    /\ thWorker = "loop"
    /\ thClient' = "<-done"
    /\ thWorker' = "fn"
    /\ UNCHANGED <<thClosed, thCalls, thTerminated, thRan, thFrame>>

\* worker: f.fn() returns
ThFn ==
    /\ thWorker = "fn"
    /\ thWorker' = "done <-"
    /\ thRan' = thRan + 1
    /\ UNCHANGED <<thClosed, thClient, thCalls, thTerminated, thFrame>>

\* worker: the deferred f.done <- struct{}{}, received by the deferred
\* <-done of Call, which returns true
ThDone ==
    /\ thWorker = "done <-"
    /\ thClient = "<-done"
    /\ thWorker' = "loop"
    /\ thClient' = "ready"
    /\ thCalls' = Append(thCalls, TRUE)
    /\ UNCHANGED <<thClosed, thTerminated, thRan, thFrame>>

\* Terminate begins: the select on t.terminate returns when the channel is
\* closed, else the default branch goes on to the send
ThTerminate ==
    /\ thClient = "ready"
    /\ ThreadOps < MaxThreadOps
    /\ IF thClosed
       THEN thTerminated' = thTerminated + 1 /\ UNCHANGED thClient
       ELSE thClient' = "t.terminate <-" /\ UNCHANGED thTerminated
    /\ UNCHANGED <<thWorker, thClosed, thCalls, thRan, thFrame>>

\* Terminate: t.terminate <- struct{}{}, received by the worker's select;
\* Terminate returns
ThTerminateSend ==
    /\ thClient = "t.terminate <-"
    /\ ~thClosed
    /\ thWorker = "loop"
    /\ thWorker' = "close"
    /\ thClient' = "ready"
    /\ thTerminated' = thTerminated + 1
    /\ UNCHANGED <<thClosed, thCalls, thRan, thFrame>>

\* Terminate: the send finds t.terminate closed, or the channel is closed
\* while the send waits: panic (send on closed channel)
ThTerminatePanic ==
    /\ thClient = "t.terminate <-"
    /\ thClosed
    /\ thClient' = "panic"
    /\ UNCHANGED <<thWorker, thClosed, thCalls, thTerminated, thRan, thFrame>>

\* worker: close(t.terminate); return
ThClose ==
    /\ thWorker = "close"
    /\ thClosed' = TRUE
    /\ thWorker' = "exit"
    /\ UNCHANGED <<thClient, thCalls, thTerminated, thRan, thFrame>>

ThNext ==
    \/ ThCall
    \/ ThSend
    \/ ThFn
    \/ ThDone
    \/ ThTerminate
    \/ ThTerminateSend
    \/ ThTerminatePanic
    \/ ThClose

SpecThread == ThInit /\ [][ThNext]_vars

\* C18: once a Terminate has returned, a Call does not take the default
\* branch of its select (where it waits for a worker that is gone), and
\* the worker executes no further function.
C18_CallAfterTerminateReturnsFalse ==
    thTerminated >= 1 =>
        /\ thClient \notin {"t.f <-", "<-done"}
        /\ thWorker \notin {"fn", "done <-"}

\* a Call made after Terminate returned waits to send on t.f while the
\* worker has left its loop
C18_Witness ==
    /\ thTerminated >= 1
    /\ thClient = "t.f <-"
    /\ thWorker = "exit"

\* C19: once a Terminate has returned, another Terminate neither waits to
\* send on t.terminate nor panics.
C19_TerminateAgainReturns ==
    thTerminated >= 1 => thClient \notin {"t.terminate <-", "panic"}

\* the second Terminate has panicked
C19_Witness ==
    /\ thTerminated = 1
    /\ thCalls = <<>>
    /\ thClient = "panic"

----------------------------------------------------------------------------
(* SpecChan: MakeChan, with one goroutine that sends the values 1, 2, ...   *)
(* on in and may close it, and one goroutine that receives from out when it  *)
(* chooses to.  in and out are unbuffered: a send and a receive happen       *)
(* together.  SpecChanFair adds that the goroutine of MakeChan is scheduled. *)

\* the values the sender sends
MaxSends == 4

\* a variant of ReceivesFromIn for a goroutine that receives from in only
\* while q is empty
ReceivesFromInWhenEmpty == {"<-in"}

\* where the goroutine of MakeChan receives from in: at line 17, and in the
\* select of line 24
ReceivesFromIn == {"<-in", "select"}

\* after MakeChan has returned in and out
ChInit ==
    /\ chSender = "ready"
    /\ chAccepted = 0
    /\ chInClosed = FALSE
    /\ chQ = <<>>
    /\ chG = "<-in"
    /\ chReceiver = "ready"
    /\ chOut = <<>>
    /\ chOutClosed = 0
    /\ chLeft = -1
    /\ chFrameIdle

\* the sender begins "in <- v" with the next value
ChSend ==
    /\ chSender = "ready"
    /\ ~chInClosed
    /\ chAccepted < MaxSends
    /\ chSender' = "in <-"
    /\ UNCHANGED <<chAccepted, chInClosed, chQ, chG, chReceiver, chOut,
                   chOutClosed, chLeft, chFrame>>

\* e, ok := <-in with ok true, at line 17 or in the select: q = append(q, e),
\* and the goroutine is at the select again
ChAccept ==
    /\ chSender = "in <-"
    /\ chG \in ReceivesFromIn
    /\ chQ' = Append(chQ, chAccepted + 1)
    /\ chAccepted' = chAccepted + 1
    /\ chSender' = "ready"
    /\ chG' = "select"
    /\ UNCHANGED <<chInClosed, chReceiver, chOut, chOutClosed, chLeft, chFrame>>

\* the sender closes in
ChCloseIn ==
    /\ chSender = "ready"
    /\ ~chInClosed
    /\ chInClosed' = TRUE
    /\ chSender' = "closed"
    /\ UNCHANGED <<chAccepted, chQ, chG, chReceiver, chOut, chOutClosed,
                   chLeft, chFrame>>

\* the receiver begins "<-out"
ChReceive ==
    /\ chReceiver = "ready"
    /\ chReceiver' = "<-out"
    /\ UNCHANGED <<chSender, chAccepted, chInClosed, chQ, chG, chOut,
                   chOutClosed, chLeft, chFrame>>

\* case out <- q[0]: q = q[1:], and the loops go on
ChDeliver ==
    /\ chG = "select"
    /\ chReceiver = "<-out"
    /\ chOut' = Append(chOut, Head(chQ))
    /\ chQ' = Tail(chQ)
    /\ chG' = IF Tail(chQ) = <<>> THEN "<-in" ELSE "select"
    /\ chReceiver' = "ready"
    /\ UNCHANGED <<chSender, chAccepted, chInClosed, chOutClosed, chLeft, chFrame>>

\* a variant of ChInIsClosed for a goroutine that closes out as soon as it
\* finds in closed, in the select as at line 17
ChInIsClosedNoDrain ==
    /\ chInClosed
    /\ chG \in ReceivesFromIn
    /\ chG' = "exit"
    /\ chOutClosed' = chOutClosed + 1
    /\ chLeft' = Len(chQ)
    /\ UNCHANGED <<chSender, chAccepted, chInClosed, chQ, chReceiver, chOut,
                   chFrame>>

\* e, ok := <-in with ok false: at line 17, close(out) and return; in the
\* select, go on to send what q holds
ChInIsClosed ==
    /\ chInClosed
    /\ chG \in ReceivesFromIn
    /\ IF chG = "<-in"
       THEN chG' = "exit" /\ chOutClosed' = chOutClosed + 1
       ELSE chG' = "range q" /\ UNCHANGED chOutClosed
    /\ chLeft' = Len(chQ)
    /\ UNCHANGED <<chSender, chAccepted, chInClosed, chQ, chReceiver, chOut,
                   chFrame>>

\* for _, e := range q { out <- e }: one send
ChDrain ==
    /\ chG = "range q"
    /\ chQ # <<>>
    /\ chReceiver = "<-out"
    /\ chOut' = Append(chOut, Head(chQ))
    /\ chQ' = Tail(chQ)
    /\ chReceiver' = "ready"
    /\ UNCHANGED <<chSender, chAccepted, chInClosed, chG, chOutClosed, chLeft, chFrame>>

\* after the range loop: close(out) and return
ChCloseOut ==
    /\ chG = "range q"
    /\ chQ = <<>>
    /\ chOutClosed' = chOutClosed + 1
    /\ chG' = "exit"
    /\ UNCHANGED <<chSender, chAccepted, chInClosed, chQ, chReceiver, chOut,
                   chLeft, chFrame>>

\* the receiver's "<-out" on the closed out
ChOutIsClosed ==
    /\ chReceiver = "<-out"
    /\ chOutClosed > 0
    /\ chReceiver' = "closed"
    /\ UNCHANGED <<chSender, chAccepted, chInClosed, chQ, chG, chOut,
                   chOutClosed, chLeft, chFrame>>

ChNext ==
    \/ ChSend
    \/ ChAccept
    \/ ChCloseIn
    \/ ChReceive
    \/ ChDeliver
    \/ ChInIsClosed
    \/ ChDrain
    \/ ChCloseOut
    \/ ChOutIsClosed

SpecChan == ChInit /\ [][ChNext]_vars

\* the goroutine of MakeChan is scheduled: a receive from in that can
\* happen does happen
SpecChanFair == SpecChan /\ WF_vars(ChAccept)

\* the values 1..n in order
UpTo(n) == [i \in 1..n |-> i]

\* the values received from in are, in the order sent, those delivered on
\* out followed by those still in q
InOrderOnce == chOut \o chQ = UpTo(chAccepted)

\* C20: the values sent on in come out of out once each and in the order
\* sent, and a send on in is always eventually accepted, whatever the
\* number of values pending and whether or not anybody receives from out.
C20_UnboundedFIFO ==
    /\ [](chG # "idle" => InOrderOnce)
    /\ (chSender = "in <-") ~> (chSender = "ready")

\* every value was accepted while nothing was received from out
C20_Witness ==
    /\ chAccepted = MaxSends
    /\ Len(chQ) = MaxSends
    /\ chOut = <<>>
    /\ chReceiver = "ready"

\* the goroutine of MakeChan is scheduled, and the goroutine that receives
\* from out goes on receiving
SpecChanDrain ==
    /\ SpecChan
    /\ WF_vars(ChAccept)
    /\ WF_vars(ChInIsClosed)
    /\ WF_vars(ChDeliver)
    /\ WF_vars(ChDrain)
    /\ WF_vars(ChCloseOut)
    /\ WF_vars(ChReceive)

\* every value received from in was delivered on out, in the order sent
AllDelivered == chQ = <<>> /\ chOut = UpTo(chAccepted)

\* C21: after in is closed, the values received from in and not yet
\* delivered are delivered on out in the order sent, and then out is
\* closed: out is closed once, only when no value is left in q, and, with a
\* receiver that goes on receiving, it is closed eventually, whether the
\* goroutine finds in closed with q empty or not.
C21_DrainThenClose ==
    /\ [](chOutClosed <= 1)
    /\ [](chOutClosed = 1 => chInClosed /\ AllDelivered)
    /\ [](chG = "range q" => InOrderOnce)
    /\ chInClosed ~> (chOutClosed = 1 /\ AllDelivered)

\* in was found closed with several values in q, and out is closed after
\* all of them were delivered
C21_Witness ==
    /\ chLeft > 1
    /\ chOutClosed = 1
    /\ chOut = UpTo(MaxSends)
    /\ chQ = <<>>

----------------------------------------------------------------------------
(* SpecRender: the render/event example.  The event thread E (main) loops  *)
(* on a select that receives a draw call or, at a tick of event.C, sends a  *)
(* ResizeEvent on change.  The rendering thread R loops on a select that    *)
(* receives from change or, by default, sends a draw call.  draw and change *)
(* are unbuffered as in main.go or buffered as in the variant of the post;  *)
(* in Solution 2 draw is replaced by drawIn and drawOut of MakeChan.        *)

\* the largest capacity of draw and of change
MaxCap == 2

\* the ticks of event.C the event thread takes
MaxEvents == 3

\* the draw calls in q of MakeChan beyond which R takes its time to draw
MaxQueued == 3

\* draw := make(chan interface{}) and change := make(chan ResizeEvent), with
\* the capacities of rnCap, or drawIn, drawOut := MakeChan(); both threads
\* are at the top of their loops, p.id is 0
RnInit ==
    /\ rnCap \in [draw : 0..MaxCap, change : 0..MaxCap]
    /\ rnG \in {"none", "<-in"}
    /\ rnG = "<-in" => rnCap = [draw |-> 0, change |-> 0]
    /\ rnE = "select"
    /\ rnR = "select"
    /\ rnChange = <<>>
    /\ rnDraw = <<>>
    /\ rnVal = 0
    /\ rnId = 0
    /\ rnEvents = 0
    /\ rnPrinted = -1
    /\ rnQ = <<>>
    /\ rnFrameIdle

\* a receive from change can proceed: the buffer holds an event, or change
\* is unbuffered and E is sending
ChangeReady ==
    \/ rnChange # <<>>
    \/ rnCap.change = 0 /\ rnE = "change <-"

\* a receive from draw can proceed: the buffer holds a draw call, or draw is
\* unbuffered and R is sending
DrawReady ==
    \/ rnDraw # <<>>
    \/ rnCap.draw = 0 /\ rnR = "draw <-"

\* E: case <-event.C: E goes on to send on change
RnTick ==
    /\ rnE = "select"
    /\ rnEvents < MaxEvents
    /\ rnEvents' = rnEvents + 1
    /\ rnE' = "change <-"
    /\ UNCHANGED <<rnCap, rnR, rnChange, rnDraw, rnVal, rnId, rnPrinted, rnG,
                   rnQ, rnFrame>>

\* E: change <- ResizeEvent{...} on a buffered change that has room
RnSendChange ==
    /\ rnE = "change <-"
    /\ Len(rnChange) < rnCap.change
    /\ rnChange' = Append(rnChange, rnEvents)
    /\ rnE' = "select"
    /\ UNCHANGED <<rnCap, rnR, rnDraw, rnVal, rnId, rnEvents, rnPrinted, rnG,
                   rnQ, rnFrame>>

\* a variant of RnReceiveChange for a rendering thread whose send of the
\* draw call is a case of the select that receives from change
RnReceiveChangeWhileSending ==
    /\ rnR \in {"select", "draw <-"}
    /\ ChangeReady
    /\ rnId' = rnId + 1
    /\ rnR' = "select"
    /\ IF rnChange # <<>>
       THEN rnChange' = Tail(rnChange) /\ UNCHANGED rnE
       ELSE rnE' = "select" /\ UNCHANGED rnChange
    /\ UNCHANGED <<rnCap, rnDraw, rnVal, rnEvents, rnPrinted, rnG, rnQ,
                   rnFrame>>

\* R: case size := <-change: p.id++, from the buffer or from E's send
RnReceiveChange ==
    /\ rnR = "select"
    /\ ChangeReady
    /\ rnId' = rnId + 1
    /\ IF rnChange # <<>>
       THEN rnChange' = Tail(rnChange) /\ UNCHANGED rnE
       ELSE rnE' = "select" /\ UNCHANGED rnChange
    /\ UNCHANGED <<rnCap, rnR, rnDraw, rnVal, rnEvents, rnPrinted, rnG, rnQ,
                   rnFrame>>

\* R: default: p.Draw() is computed and R goes on to send it, on draw or on
\* drawIn
RnDefault ==
    /\ rnR = "select"
    /\ ~ChangeReady
    /\ rnG # "none" => Len(rnQ) < MaxQueued
    /\ rnVal' = rnId
    /\ rnR' = "draw <-"
    /\ UNCHANGED <<rnCap, rnE, rnChange, rnDraw, rnId, rnEvents, rnPrinted,
                   rnG, rnQ, rnFrame>>

\* R: draw <- p.Draw() on a buffered draw that has room
RnSendDraw ==
    /\ rnG = "none"
    /\ rnR = "draw <-"
    /\ Len(rnDraw) < rnCap.draw
    /\ rnDraw' = Append(rnDraw, rnVal)
    /\ rnR' = "select"
    /\ UNCHANGED <<rnCap, rnE, rnChange, rnVal, rnId, rnEvents, rnPrinted,
                   rnG, rnQ, rnFrame>>

\* a variant of RnReceiveDraw for an event thread whose send on change is a
\* case of the select that receives from draw
RnReceiveDrawWhileSending ==
    /\ rnG = "none"
    /\ rnE \in {"select", "change <-"}
    /\ DrawReady
    /\ IF rnDraw # <<>>
       THEN rnPrinted' = Head(rnDraw) /\ rnDraw' = Tail(rnDraw)
            /\ UNCHANGED rnR
       ELSE rnPrinted' = rnVal /\ rnR' = "select" /\ UNCHANGED rnDraw
    /\ UNCHANGED <<rnCap, rnE, rnChange, rnVal, rnId, rnEvents, rnG, rnQ,
                   rnFrame>>

\* E: case id := <-draw: println(id), from the buffer or from R's send
RnReceiveDraw ==
    /\ rnG = "none"
    /\ rnE = "select"
    /\ DrawReady
    /\ IF rnDraw # <<>>
       THEN rnPrinted' = Head(rnDraw) /\ rnDraw' = Tail(rnDraw)
            /\ UNCHANGED rnR
       ELSE rnPrinted' = rnVal /\ rnR' = "select" /\ UNCHANGED rnDraw
    /\ UNCHANGED <<rnCap, rnE, rnChange, rnVal, rnId, rnEvents, rnG, rnQ,
                   rnFrame>>

\* a variant of RnAccept for a goroutine of MakeChan that receives from in
\* only while q is empty
RnAcceptWhenEmpty ==
    /\ rnG = "<-in"
    /\ rnR = "draw <-"
    /\ rnQ' = Append(rnQ, rnVal)
    /\ rnR' = "select"
    /\ rnG' = "select"
    /\ UNCHANGED <<rnCap, rnE, rnChange, rnDraw, rnVal, rnId, rnEvents,
                   rnPrinted, rnFrame>>

\* MakeChan: e, ok := <-in while R sends on drawIn, at line 17 or in the
\* select: q = append(q, e)
RnAccept ==
    /\ rnG \in ReceivesFromIn
    /\ rnR = "draw <-"
    /\ rnQ' = Append(rnQ, rnVal)
    /\ rnR' = "select"
    /\ rnG' = "select"
    /\ UNCHANGED <<rnCap, rnE, rnChange, rnDraw, rnVal, rnId, rnEvents,
                   rnPrinted, rnFrame>>

\* MakeChan: case out <- q[0] while E is at case id := <-drawOut:
\* println(id), q = q[1:]
RnDeliver ==
    /\ rnG = "select"
    /\ rnE = "select"
    /\ rnPrinted' = Head(rnQ)
    /\ rnQ' = Tail(rnQ)
    /\ rnG' = IF Tail(rnQ) = <<>> THEN "<-in" ELSE "select"
    /\ UNCHANGED <<rnCap, rnE, rnR, rnChange, rnDraw, rnVal, rnId, rnEvents,
                   rnFrame>>

RnNext ==
    \/ RnTick
    \/ RnSendChange
    \/ RnReceiveChange
    \/ RnDefault
    \/ RnSendDraw
    \/ RnReceiveDraw
    \/ RnAccept
    \/ RnDeliver

SpecRender == RnInit /\ [][RnNext]_vars

\* the goroutine of MakeChan and the rendering thread are scheduled: a
\* receive from in or from change that can happen does happen
SpecRenderFair ==
    /\ SpecRender
    /\ WF_vars(RnAccept)
    /\ WF_vars(RnReceiveChange)

\* E is in its send on change and R in its send of a draw call
BothSending == rnE = "change <-" /\ rnR = "draw <-"

\* the example as main.go has it
Unbuffered == rnG = "none" /\ rnCap = [draw |-> 0, change |-> 0]

\* C22: with draw and change unbuffered, in the state where the event
\* thread is sending on change and the rendering thread is sending on draw,
\* no step of either thread is possible, so both stay there forever.
C22_UnbufferedDeadlock == Unbuffered /\ BothSending => ~ENABLED RnNext

\* both threads are in their sends on the unbuffered channels
C22_Witness == Unbuffered /\ BothSending /\ rnEvents = 1

\* draw and change are both buffered
Buffered == rnG = "none" /\ rnCap.draw > 0 /\ rnCap.change > 0

\* the buffers of draw and change hold as many values as they can
BothFull == Len(rnDraw) = rnCap.draw /\ Len(rnChange) = rnCap.change

\* C23: with draw and change buffered with any capacities, in the state
\* where both buffers are full, the event thread is sending on change and
\* the rendering thread is sending on draw, no step of either thread is
\* possible, so both stay there forever.
C23_BufferedDeadlock == Buffered /\ BothSending /\ BothFull => ~ENABLED RnNext

\* both threads are in their sends on the full channels of the largest
\* capacity
C23_Witness ==
    /\ rnG = "none"
    /\ rnCap = [draw |-> MaxCap, change |-> MaxCap]
    /\ BothSending
    /\ BothFull

\* draw is the unbounded channel of MakeChan
Unbounded == rnG \in ReceivesFromIn

\* C24: with draw replaced by drawIn and drawOut of MakeChan, some step is
\* always possible, the send of a draw call on drawIn can always be
\* accepted, and, the goroutines being scheduled, every send of the
\* rendering thread on drawIn and every send of the event thread on change
\* is eventually received.
C24_UnboundedNoDeadlock ==
    /\ [](Unbounded => ENABLED RnNext)
    /\ [](Unbounded /\ rnR = "draw <-" => ENABLED RnAccept)
    /\ (Unbounded /\ rnR = "draw <-") ~> (rnR = "select")
    /\ (Unbounded /\ rnE = "change <-") ~> (rnE = "select")

\* both threads are in their sends while q holds draw calls that E has not
\* received
C24_Witness ==
    /\ Unbounded
    /\ BothSending
    /\ Len(rnQ) = MaxQueued - 1

----------------------------------------------------------------------------
(* SpecHandle: package cgo1.  A program calls NewHandle, Value and Delete   *)
(* in any order with any arguments; a panic is recovered and the program    *)
(* goes on.  A Go value is a record of its reflect.Kind, of what            *)
(* reflect.Value.Pointer returns for it (0 for a nil pointer and for the    *)
(* kinds that have none) and of what else tells it from other values.       *)

\* the calls the program makes
MaxHandleOps == 4

\* the objects of &wrap{v} that can be live at a time
MaxWraps == 2

\* the addresses of the variable the program's pointer points to and of
\* the array the program's slices share
Addr == [var |-> 1, array |-> 2]

\* the addresses the allocator gives to the objects of &wrap{v}
WrapAddrs == (Addr.array + 1)..(Addr.array + MaxWraps)

\* the values the program passes: a nil pointer, a pointer to a variable,
\* the slices a[:1] and a[:2] of one array, and two integers
GoValues ==
    {[kind |-> "ptr", ptr |-> a, data |-> 0] : a \in {0, Addr.var}}
    \cup {[kind |-> "slice", ptr |-> Addr.array, data |-> n] : n \in 1..2}
    \cup {[kind |-> "int", ptr |-> 0, data |-> n] : n \in 1..2}

\* the handles the program passes
Handles == 0..(Addr.array + MaxWraps)

\* case reflect.Ptr, reflect.UnsafePointer, reflect.Slice, reflect.Map,
\* reflect.Chan, reflect.Func
IsPointerKind(v) == v.kind \in {"ptr", "slice"}

\* m.Load: whether the key is in the map
Loaded(m, k) == k \in DOMAIN m

\* m.Store
Store(m, k, e) == [x \in DOMAIN m \cup {k} |-> IF x = k THEN e ELSE m[x]]

\* m.Delete
Remove(m, k) == [x \in DOMAIN m \ {k} |-> m[x]]

\* reflect.ValueOf(actual).Pointer() of the value stored at key k: the
\* address of the wrap object, or the pointer of the value itself
PointerOf(m, k) == IF m[k].wrapped THEN k ELSE m[k].v.ptr

\* the outcome of NewHandle(v) with the key k: the wrap address for a value
\* that is wrapped, rv.Pointer() otherwise
newHandle(m, v, k) ==
    IF IsPointerKind(v) /\ v.ptr = 0
    THEN [m |-> m, h |-> 0, panic |-> TRUE]
    ELSE IF ~Loaded(m, k)
    THEN [m |-> Store(m, k, [wrapped |-> ~IsPointerKind(v), v |-> v]),
          h |-> k, panic |-> FALSE]
    ELSE IF PointerOf(m, k) = k
    THEN [m |-> m, h |-> k, panic |-> FALSE]
    ELSE [m |-> m, h |-> 0, panic |-> TRUE]

\* the handles that were returned and not deleted since
ValidHandles == {p.h : p \in cgIssued}

\* before any call
CgInit ==
    /\ cgM = <<>>
    /\ cgIssued = {}
    /\ cgLast = NoCall
    /\ cgOps = 0
    /\ cgFrameIdle

\* NewHandle(v)
NewHandle ==
    /\ cgOps < MaxHandleOps
    /\ \E v \in GoValues :
       \E k \in IF IsPointerKind(v) THEN {v.ptr} ELSE WrapAddrs \ DOMAIN cgM :
          LET r == newHandle(cgM, v, k)
          IN  /\ cgM' = r.m
              /\ cgIssued' = IF r.panic THEN cgIssued
                             ELSE cgIssued \cup {[h |-> r.h, v |-> v]}
              /\ cgLast' = [op |-> "NewHandle", h |-> r.h, v |-> v,
                            valid |-> FALSE, panic |-> r.panic]
    /\ cgOps' = cgOps + 1
    /\ UNCHANGED cgFrame

\* h.Value(): the value stored, out of its wrap if it has one
Value ==
    /\ cgOps < MaxHandleOps
    /\ \E h \in Handles :
          cgLast' = [op |-> "Value", h |-> h,
                     v |-> IF Loaded(cgM, h) THEN cgM[h].v ELSE NoValue,
                     valid |-> h \in ValidHandles,
                     panic |-> ~Loaded(cgM, h)]
    /\ cgOps' = cgOps + 1
    /\ UNCHANGED <<cgM, cgIssued, cgFrame>>

\* h.Delete()
Delete ==
    /\ cgOps < MaxHandleOps
    /\ \E h \in Handles :
          /\ cgLast' = [op |-> "Delete", h |-> h, v |-> NoValue,
                        valid |-> h \in ValidHandles,
                        panic |-> ~Loaded(cgM, h)]
          /\ cgM' = IF Loaded(cgM, h) THEN Remove(cgM, h) ELSE cgM
          /\ cgIssued' = {p \in cgIssued : p.h # h}
    /\ cgOps' = cgOps + 1
    /\ UNCHANGED cgFrame

CgNext ==
    \/ NewHandle
    \/ Value
    \/ Delete

SpecHandle == CgInit /\ [][CgNext]_vars

\* C25: a handle that NewHandle returned is not zero and, until Delete is
\* called on it, Value returns for it the value that was passed to
\* NewHandle; Value and Delete panic exactly when the handle is not valid.
C25_HandleContract ==
    /\ \A p \in cgIssued :
          /\ p.h # 0
          /\ Loaded(cgM, p.h)
          /\ cgM[p.h].v = p.v
    /\ cgLast.op \in {"Value", "Delete"} => (cgLast.panic <=> ~cgLast.valid)

\* Value returned, for a handle that NewHandle returned and nobody deleted,
\* another value than the one passed to that call of NewHandle
C25_Witness ==
    /\ cgLast.op = "Value"
    /\ ~cgLast.panic
    /\ \E p \in cgIssued : p.h = cgLast.h /\ p.v # cgLast.v

----------------------------------------------------------------------------
(* SpecSubst: parseReferences on every References text of the characters    *)
(* of the two literal substitutions and of their replacements               *)

\* the longest References text
MaxSubstLen == 5

\* the characters of "[^" and "]:", the replacements, and another character
SubstAlphabet == {"[", "^", "]", ":", "\\bibitem{", "}", "x"}

SubstInit ==
    /\ rdoc \in {RefHeadingNL \o t : t \in SeqsUpTo(SubstAlphabet, MaxSubstLen)}
    /\ rpc = "input"
    /\ rres = [ok |-> FALSE, content |-> <<>>]
    /\ refFrameIdle

SpecSubst == SubstInit /\ [][RefNext]_vars

\* the References text of doc after the two literal substitutions in the
\* other order: "]:" first, then "[^"
SubstitutedSwapped(doc) ==
    ReplaceAll(ReplaceAll(cutReferences(doc).content, BibClose, <<"}">>),
               BibOpen, BibItem)

\* C27 as stated: once parseReferences has run, there is a References text
\* for which the substitution of "]:" followed by that of "[^" gives
\* another result than the order of the program.
C27_OrderMatters ==
    rpc = "done" =>
        \E t \in SeqsUpTo(SubstAlphabet, MaxSubstLen) :
            SubstitutedSwapped(RefHeadingNL \o t)
                # Substituted(RefHeadingNL \o t)

\* C27: for every References text, the Bibliography document of the program
\* is the one that the two literal substitutions give in the other order.
C27_OrderIrrelevant ==
    rpc = "done" =>
        /\ SubstitutedSwapped(rdoc) = Substituted(rdoc)
        /\ rres.ok
        /\ Inner(rres.content) = SubstitutedSwapped(rdoc)

\* parseReferences has run on a text where the two patterns touch
C27_Witness ==
    /\ rpc = "done"
    /\ rdoc = RefHeadingNL \o <<"[", "^", "]", ":", "x">>
    /\ Inner(rres.content) = <<"\\bibitem{", "}", "x">>

====
